---------------------------- MODULE Spec2Model ----------------------------
(***************************************************************************)
(* A model of the LifeSearch habitability scoring engine                   *)
(* (src/lifesearch/lifesearch_main.py) and of the collaborators around it. *)
(*                                                                         *)
(* Python values are modelled as tagged records:                           *)
(*   None            [t |-> "NoneType"]                                    *)
(*   float("nan")    [t |-> "float", nan |-> TRUE]                         *)
(*   an int or float [t |-> "float", nan |-> FALSE, m |-> m, d |-> d],     *)
(*                   the exact decimal m / 10^d                            *)
(*   a str           [t |-> "str", s |-> <<"a", "b", ...>>], the sequence  *)
(*                   of its characters, so that `in`, startswith, strip    *)
(*                   and float() act on the characters as Python does      *)
(* Dictionary keys and colour codes are only ever compared for equality    *)
(* and are plain TLA+ strings.                                             *)
(*                                                                         *)
(* A call either returns a value or raises:                                *)
(*   Ret(v) = [ok |-> TRUE, v |-> v],  Raise(e) = [ok |-> FALSE, exc |-> e]*)
(***************************************************************************)
EXTENDS Integers, Sequences, FiniteSets, TLC

(***************************************************************************)
(* Python values                                                           *)
(***************************************************************************)
PyNone == [t |-> "NoneType"]

PyNaN == [t |-> "float", nan |-> TRUE]

Dec(m, d) == [t |-> "float", nan |-> FALSE, m |-> m, d |-> d]

Str(s) == [t |-> "str", s |-> s]

Ret(v) == [ok |-> TRUE, v |-> v]

Raise(e) == [ok |-> FALSE, exc |-> e]

IsNone(v) == v.t = "NoneType"

IsStr(v) == v.t = "str"

IsNaN(v) == v.t = "float" /\ v.nan

IsNum(v) == v.t = "float" /\ ~v.nan

\* pandas.isna on a scalar: True for None and NaN, False for numbers and strings
pd_isna(v) == IsNone(v) \/ IsNaN(v)

pd_notna(v) == ~pd_isna(v)

\* dict.get(key) with the default None, and dict.get(key, default)
Get(dict, key) == IF key \in DOMAIN dict THEN dict[key] ELSE PyNone

GetOr(dict, key, default) == IF key \in DOMAIN dict THEN dict[key] ELSE default

\* dict.update / item assignment: the right operand wins
Update(dict, new) ==
  [k \in DOMAIN dict \cup DOMAIN new |-> IF k \in DOMAIN new THEN new[k] ELSE dict[k]]

(***************************************************************************)
(* Exact decimals: comparison of m1/10^d1 with m2/10^d2 without leaving    *)
(* the 32-bit integers of the model checker.                               *)
(***************************************************************************)
RECURSIVE Pow10(_)
Pow10(k) == IF k <= 0 THEN 1 ELSE 10 * Pow10(k - 1)

Abs(x) == IF x < 0 THEN -x ELSE x

\* floor(m / 10^k), also for a 10^k beyond the integers of the model checker
DivPow10(m, k) ==
  IF k > 9 THEN (IF m < 0 THEN -1 ELSE 0) ELSE m \div Pow10(k)

\* a < b for numbers a, b
Lt(a, b) ==
  IF a.d >= b.d
  THEN DivPow10(a.m, a.d - b.d) < b.m
  ELSE a.m <= DivPow10(b.m - 1, b.d - a.d)

Le(a, b) == ~Lt(b, a)

Gt(a, b) == Lt(b, a)

Ge(a, b) == ~Lt(a, b)

NumEq(a, b) == ~Lt(a, b) /\ ~Lt(b, a)

\* int literal
Int_(n) == Dec(n, 0)

(***************************************************************************)
(* Floating-point arithmetic of calculate_sephi and classify_planet.       *)
(* Computed floats are fixed-point integers with six decimals (FXS = 10^6, *)
(* the value x stands for x / 10^6); **, math.exp and math.sqrt are        *)
(* computed by series to that resolution.  A result below 10^-6 is 0 here. *)
(***************************************************************************)
FXS == 1000 * 1000

\* the fixed-point value of the decimal m / 10^d, rounded half up
FX(m, d) ==
  IF d <= 6 THEN m * Pow10(6 - d)
  ELSE (m + (Pow10(d - 6) \div 2)) \div Pow10(d - 6)

ToFX(v) == FX(v.m, v.d)

\* a * b for non-negative fixed-point a, b (rounded), by parts of three digits
MulU(a, b) ==
  LET ah == a \div FXS
      al == a % FXS
      bh == b \div FXS
      bl == b % FXS
      a1 == al \div 1000
      a0 == al % 1000
      b1 == bl \div 1000
      b0 == bl % 1000
  IN  ah * bh * FXS + ah * bl + al * bh + a1 * b1
        + (((a1 * b0 + a0 * b1) * 1000 + a0 * b0 + 500000) \div FXS)

MulFX(a, b) ==
  IF (a < 0) = (b < 0) THEN MulU(Abs(a), Abs(b)) ELSE -MulU(Abs(a), Abs(b))

\* a / b for non-negative fixed-point a and b > 0; a divisor of 200 or more
\* is first brought below it, with the dividend
RECURSIVE DivU(_, _)
DivU(a, b) ==
  LET \* the first n decimal digits of r / b, for 0 <= r < b
      RECURSIVE DivDigits(_, _)
      DivDigits(r, n) ==
        IF n = 0 THEN (IF 2 * r >= b THEN 1 ELSE 0)
        ELSE ((r * 10) \div b) * Pow10(n - 1) + DivDigits((r * 10) % b, n - 1)
  IN  IF b >= 200 * FXS THEN DivU((a + 5) \div 10, (b + 5) \div 10)
      ELSE (a \div b) * FXS + DivDigits(a % b, 6)

\* a / b for fixed-point a and b # 0 (rounded)
DivFX(a, b) == (IF (a < 0) = (b < 0) THEN 1 ELSE -1) * DivU(Abs(a), Abs(b))

RECURSIVE Pow2(_)
Pow2(k) == IF k <= 0 THEN 1 ELSE 2 * Pow2(k - 1)

LN2 == FX(693147, 6)

LN10 == FX(2302585, 6)

\* the k with 2^k <= x / FXS < 2^(k+1), for x > 0
RECURSIVE Log2Floor(_)
Log2Floor(x) ==
  IF x >= 2 * FXS THEN 1 + Log2Floor(x \div 2)
  ELSE IF x < FXS THEN Log2Floor(2 * x) - 1
  ELSE 0

\* sum over odd i <= n of z^i / i, given z^j and z^2
RECURSIVE AtanhSeries(_, _, _, _)
AtanhSeries(zj, z2, j, n) ==
  IF j > n \/ zj = 0 THEN 0
  ELSE (zj \div j) + AtanhSeries(MulFX(zj, z2), z2, j + 2, n)

\* math.log(x) for x > 0:  ln x = k ln 2 + 2 atanh((f-1)/(f+1)),  f = x / 2^k
LnFX(x) ==
  LET \* 2 atanh(z), the logarithm of the mantissa f = (1 + z) / (1 - z)
      LnMantissa(z) == 2 * AtanhSeries(z, MulFX(z, z), 1, 13)
      LnReduced(k, f) == k * LN2 + LnMantissa(DivFX(f - FXS, f + FXS))
      LnScaled(k) ==
        LnReduced(k, IF k >= 0 THEN (x + (Pow2(k) \div 2)) \div Pow2(k) ELSE x * Pow2(-k))
  IN  LnScaled(Log2Floor(x))

\* math.exp(y):  e^y = 2^k e^r,  y = k ln 2 + r,  0 <= r < ln 2
ExpFX(y) ==
  LET \* sum over i >= j of r^i / i!, given the term r^(j-1)/(j-1)!
      RECURSIVE ExpSeries(_, _, _)
      ExpSeries(term, r, j) ==
        IF term = 0 \/ j > 14 THEN 0
        ELSE term + ExpSeries(MulFX(term, r) \div j, r, j + 1)
      \* e * 2^k, rounded
      ExpScaled(e, k) ==
        IF k >= 0 THEN e * Pow2(k)
        ELSE IF k < -30 THEN 0
        ELSE (e + (Pow2(-k) \div 2)) \div Pow2(-k)
      ExpSplit(k) == ExpScaled(ExpSeries(FXS, y - k * LN2, 1), k)
  IN  ExpSplit(y \div LN2)

\* x ** p for a float x > 0
PowFX(x, p) == ExpFX(MulFX(p, LnFX(x)))

\* math.sqrt(x) for x >= 0, by Newton's iteration from a power of two above it
SqrtFX(x) ==
  LET \* y2 follows y
      RECURSIVE SqrtIter(_, _)
      SqrtIter(y, n) ==
        LET SqrtNext(y2) == IF n = 0 \/ y2 >= y THEN y ELSE SqrtIter(y2, n - 1)
        IN  SqrtNext((y + DivFX(x, y)) \div 2)
      SqrtStart(k) ==
        IF k >= 0 THEN FXS * Pow2((k \div 2) + 1) ELSE FXS \div Pow2(((-k) - 1) \div 2)
  IN  IF x = 0 THEN 0 ELSE SqrtIter(SqrtStart(Log2Floor(x)), 60)

(***************************************************************************)
(* Strings                                                                 *)
(***************************************************************************)
\* needle in hay
Contains(hay, needle) ==
  \E i \in 1..(Len(hay) - Len(needle) + 1) :
    SubSeq(hay, i, i + Len(needle) - 1) = needle

\* s.startswith(prefix)
StartsWith(s, prefix) ==
  Len(s) >= Len(prefix) /\ SubSeq(s, 1, Len(prefix)) = prefix

\* s.strip()
Strip(s) ==
  LET IsSpace(c) == c \in {" ", "\t", "\n"}
      RECURSIVE LStrip(_)
      LStrip(u) == IF u # <<>> /\ IsSpace(Head(u)) THEN LStrip(Tail(u)) ELSE u
      RECURSIVE RStrip(_)
      RStrip(u) ==
        IF u # <<>> /\ IsSpace(u[Len(u)]) THEN RStrip(SubSeq(u, 1, Len(u) - 1)) ELSE u
  IN  RStrip(LStrip(s))

Digits == <<"0", "1", "2", "3", "4", "5", "6", "7", "8", "9">>

IsDigit(c) == \E i \in 1..10 : Digits[i] = c

\* the number a sequence of digits writes
RECURSIVE DigitsVal(_)
DigitsVal(s) ==
  IF s = <<>> THEN 0
  ELSE DigitsVal(SubSeq(s, 1, Len(s) - 1)) * 10
         + (CHOOSE i \in 1..10 : Digits[i] = s[Len(s)]) - 1

\* the decimal digits of n >= 0
RECURSIVE DigitsOf(_)
DigitsOf(n) ==
  IF n < 10 THEN <<Digits[n + 1]>> ELSE DigitsOf(n \div 10) \o <<Digits[(n % 10) + 1]>>

\* float(s) for a str: surrounding blanks, a sign, digits with at most one
\* point and at least one digit; anything else is a ValueError.  (The forms
\* with an exponent, "inf" and "nan" do not occur among the model's inputs.)
ParseFloat(s) ==
  LET \* the digits before and after the point
      ParseParts(whole, frac, negative) ==
        IF /\ Len(whole) + Len(frac) >= 1
           /\ \A i \in 1..Len(whole) : IsDigit(whole[i])
           /\ \A i \in 1..Len(frac) : IsDigit(frac[i])
        THEN Ret(Dec(IF negative THEN -DigitsVal(whole \o frac)
                     ELSE DigitsVal(whole \o frac),
                     Len(frac)))
        ELSE Raise("ValueError")
      ParsePoints(body, points, negative) ==
        IF Cardinality(points) > 1 THEN Raise("ValueError")
        ELSE IF points = {} THEN ParseParts(body, <<>>, negative)
        ELSE ParseParts(SubSeq(body, 1, (CHOOSE i \in points : TRUE) - 1),
                        SubSeq(body, (CHOOSE i \in points : TRUE) + 1, Len(body)),
                        negative)
      ParseBody(body, negative) ==
        ParsePoints(body, {i \in 1..Len(body) : body[i] = "."}, negative)
      ParseSigned(t) ==
        IF t # <<>> /\ Head(t) \in {"+", "-"} THEN ParseBody(Tail(t), Head(t) = "-")
        ELSE ParseBody(t, FALSE)
  IN  ParseSigned(Strip(s))

\* float(v) for any value
float(v) ==
  IF IsNone(v) THEN Raise("TypeError")
  ELSE IF IsStr(v) THEN ParseFloat(v.s)
  ELSE Ret(v)

\* m / 10^k rounded to an integer, ties to even
RoundDiv(m, k) ==
  LET p == Pow10(k)
      q == m \div p
      r == m % p
  IN  IF 2 * r > p \/ (2 * r = p /\ q % 2 = 1) THEN q + 1 ELSE q

\* round(v, n) for a number v
round(v, n) == IF v.d <= n THEN v ELSE Dec(RoundDiv(v.m, v.d - n), n)

\* f"{v:.{precision}f}" for a number v
FormatFixed(v, precision) ==
  LET \* the digits of mag / 10^precision, with the sign
      FormatScaled(mag, negative) ==
        (IF negative THEN <<"-">> ELSE <<>>)
          \o DigitsOf(mag \div Pow10(precision))
          \o (IF precision = 0 THEN <<>>
              ELSE <<".">>
                   \o [i \in 1..(precision - Len(DigitsOf(mag % Pow10(precision)))) |-> "0"]
                   \o DigitsOf(mag % Pow10(precision)))
  IN  FormatScaled(Abs(IF v.d <= precision THEN v.m * Pow10(precision - v.d)
                       ELSE RoundDiv(v.m, v.d - precision)),
                   v.m < 0)

NA == <<"N", "/", "A">>

\* format_value(value, precision, default_na): the formatted float, or
\* default_na when the value is missing or float() raised
format_value(value, precision, default_na) ==
  LET format_float(f) ==
        IF f.ok THEN Str(FormatFixed(f.v, precision)) ELSE Str(default_na)
  IN  IF pd_isna(value) THEN Str(default_na) ELSE format_float(float(value))

(***************************************************************************)
(* Helper functions of lifesearch_main.py                                  *)
(***************************************************************************)
\* get_color_for_percentage(value, high_is_good): grey for a missing value and
\* when float() raised
get_color_for_percentage(value, high_is_good) ==
  LET color_of_float(f) ==
        IF ~f.ok THEN "#757575"
        ELSE IF high_is_good
             THEN IF Ge(f.v, Int_(80)) THEN "#4CAF50"
                  ELSE IF Ge(f.v, Int_(60)) THEN "#8BC34A"
                  ELSE IF Ge(f.v, Int_(40)) THEN "#FFC107"
                  ELSE IF Ge(f.v, Int_(20)) THEN "#FF9800"
                  ELSE "#F44336"
             ELSE IF Le(f.v, Int_(10)) THEN "#4CAF50"
                  ELSE IF Le(f.v, Int_(25)) THEN "#8BC34A"
                  ELSE IF Le(f.v, Int_(50)) THEN "#FFC107"
                  ELSE IF Le(f.v, Int_(75)) THEN "#FF9800"
                  ELSE "#F44336"
  IN  IF pd_isna(value) THEN "#757575" ELSE color_of_float(float(value))

\* a * b for numbers, exactly
DecMul(a, b) == Dec(a.m * b.m, a.d + b.d)

\* a / b for numbers a >= 0, b > 0, rounded to n decimals
DecDiv(a, b, n) ==
  LET e == (b.d + n) - a.d
      num == IF e >= 0 THEN Pow10(e) ELSE 1
      den == IF e >= 0 THEN b.m ELSE b.m * Pow10(-e)
      r == (a.m % den) * num
  IN  Dec((a.m \div den) * num + (r \div den) + (IF 2 * (r % den) >= den THEN 1 ELSE 0), n)

\* the speeds of calculate_travel_times, as fractions of c, in the order of the dict
speeds == <<Dec(57, 6), Dec(20, 2), Dec(9999, 4)>>

travel_info_na ==
  [scenario_1_label |-> Str(<<"C", "u", "r", "r", "e", "n", "t", " ", "t", "e", "c", "h", " ", "(", "~", "0", ".", "0", "0", "5", "7", "%", " ", "c", ")">>), scenario_1_time |-> Str(NA),
   scenario_2_label |-> Str(<<"2", "0", "%", " ", "s", "p", "e", "e", "d", " ", "o", "f", " ", "l", "i", "g", "h", "t">>), scenario_2_time |-> Str(NA),
   scenario_3_label |-> Str(<<"N", "e", "a", "r", " ", "l", "i", "g", "h", "t", " ", "s", "p", "e", "e", "d", " ", "(", "0", ".", "9", "9", "9", "9", "c", ")">>), scenario_3_time |-> Str(NA)]

\* calculate_travel_times(distance_ly)
calculate_travel_times(distance_ly) ==
  LET \* f"{distance_ly / v_c:.1f} years"
      travel_time(v_c) ==
        Str(FormatFixed(DecDiv(distance_ly, v_c, 1), 1) \o <<" ", "y", "e", "a", "r", "s">>)
  IN  IF pd_isna(distance_ly) \/ ~IsNum(distance_ly) \/ Le(distance_ly, Int_(0))
      THEN travel_info_na
      ELSE [travel_info_na EXCEPT
              !.scenario_1_time = travel_time(speeds[1]),
              !.scenario_2_time = travel_time(speeds[2]),
              !.scenario_3_time = travel_time(speeds[3])]

\* x ** p as a number, for fixed-point x > 0: six significant decimals, also
\* for a result far below 1
PowDec(x, p) ==
  LET ExpDecScaled(l, k) == Dec(ExpFX(l + k * LN10), 6 + k)
      ExpDec(l) ==
        IF l >= 0 THEN Dec(ExpFX(l), 6) ELSE ExpDecScaled(l, ((-l) \div LN10) + 1)
  IN  ExpDec(MulFX(p, LnFX(x)))

\* the mass classify_planet estimates from the radius when the mass is missing
estimated_mass(radius_earth) ==
  IF Lt(radius_earth, Dec(15, 1))
  THEN PowDec(ToFX(radius_earth), DivFX(FXS, FX(3, 1)))
  ELSE DecMul(radius_earth, radius_earth)

mass_class_of(mass_earth) ==
  IF pd_isna(mass_earth) \/ Le(mass_earth, Int_(0)) THEN <<"U", "n", "k", "n", "o", "w", "n", " ", "M", "a", "s", "s", " ", "C", "l", "a", "s", "s">>
  ELSE IF Lt(mass_earth, Dec(1, 5)) THEN <<"A", "s", "t", "e", "r", "o", "i", "d", "a", "n">>
  ELSE IF Lt(mass_earth, Dec(1, 1)) THEN <<"M", "e", "r", "c", "u", "r", "i", "a", "n">>
  ELSE IF Lt(mass_earth, Dec(5, 1)) THEN <<"S", "u", "b", "t", "e", "r", "r", "a", "n">>
  ELSE IF Lt(mass_earth, Int_(2)) THEN <<"T", "e", "r", "r", "a", "n">>
  ELSE IF Lt(mass_earth, Int_(10)) THEN <<"S", "u", "p", "e", "r", "t", "e", "r", "r", "a", "n">>
  ELSE IF Lt(mass_earth, Int_(50)) THEN <<"N", "e", "p", "t", "u", "n", "i", "a", "n">>
  ELSE IF Lt(mass_earth, Int_(5000)) THEN <<"J", "o", "v", "i", "a", "n">>
  ELSE <<"U", "n", "k", "n", "o", "w", "n", " ", "M", "a", "s", "s", " ", "C", "l", "a", "s", "s">>

temp_class_of(temp_k) ==
  IF pd_isna(temp_k) \/ Lt(temp_k, Int_(0)) THEN <<"U", "n", "k", "n", "o", "w", "n", " ", "T", "e", "m", "p", "e", "r", "a", "t", "u", "r", "e", " ", "C", "l", "a", "s", "s">>
  ELSE IF Lt(temp_k, Int_(170)) THEN <<"H", "y", "p", "o", "p", "s", "y", "c", "h", "r", "o", "p", "l", "a", "n", "e", "t", " ", "(", "V", "e", "r", "y", " ", "C", "o", "l", "d", ")">>
  ELSE IF Lt(temp_k, Int_(220)) THEN <<"P", "s", "y", "c", "h", "r", "o", "p", "l", "a", "n", "e", "t", " ", "(", "C", "o", "l", "d", ")">>
  ELSE IF Lt(temp_k, Int_(273)) THEN <<"M", "e", "s", "o", "p", "l", "a", "n", "e", "t", " ", "(", "T", "e", "m", "p", "e", "r", "a", "t", "e", " ", "1", ")">>
  ELSE IF Lt(temp_k, Int_(323)) THEN <<"M", "e", "s", "o", "p", "l", "a", "n", "e", "t", " ", "(", "T", "e", "m", "p", "e", "r", "a", "t", "e", " ", "2", " ", "-", " ", "O", "p", "t", "i", "m", "a", "l", " ", "f", "o", "r", " ", "E", "a", "r", "t", "h", " ", "L", "i", "f", "e", ")">>
  ELSE IF Lt(temp_k, Int_(373)) THEN <<"T", "h", "e", "r", "m", "o", "p", "l", "a", "n", "e", "t", " ", "(", "W", "a", "r", "m", ")">>
  ELSE <<"H", "y", "p", "e", "r", "t", "h", "e", "r", "m", "o", "p", "l", "a", "n", "e", "t", " ", "(", "H", "o", "t", ")">>

\* classify_planet(mass_earth, radius_earth, temp_k): the classification string
\* of the mass (given or estimated) and of the temperature, or the TypeError of
\* comparing a str with a number
classify_planet(mass_earth, radius_earth, temp_k) ==
  LET classified(mass) ==
        IF IsStr(mass) THEN Raise("TypeError")
        ELSE IF IsStr(temp_k) THEN Raise("TypeError")
        ELSE Ret(Str(mass_class_of(mass) \o <<" ", "|", " ">> \o temp_class_of(temp_k)))
  IN  IF pd_isna(mass_earth) /\ pd_notna(radius_earth)
      THEN IF IsStr(radius_earth) THEN Raise("TypeError")
           ELSE IF Gt(radius_earth, Int_(0)) THEN classified(estimated_mass(radius_earth))
           ELSE classified(mass_earth)
      ELSE classified(mass_earth)

(***************************************************************************)
(* calculate_sephi.  Quantities beyond the fixed-point range (the orbital  *)
(* period in seconds, G * M, the orbit in metres, M_n) are carried by      *)
(* their natural logarithms; the stellar temperature enters by st / 5778   *)
(* and by (st - 5780) / 1000, with the polynomial coefficients scaled by   *)
(* the matching power of 1000.                                             *)
(***************************************************************************)
\* math.exp(-0.5 * ((x - mu) / sigma) ** 2); below 10^-6 beyond eight sigma
Gauss(x, mu, sigma) ==
  LET GaussOf(q) == ExpFX(-(MulFX(q, q) \div 2))
  IN  IF Abs(x - mu) >= 8 * Abs(sigma) THEN 0 ELSE GaussOf(DivFX(x - mu, sigma))

\* the outcome of a guarded conversion: the float, or None when float() raised
converted(f) == IF f.ok THEN f.v ELSE PyNone

\* the conversion of one core parameter: a float, or None
converted_param(p_val) ==
  IF IsStr(p_val) /\ Strip(p_val.s) = <<>> THEN PyNone
  ELSE IF IsNone(p_val) \/ pd_isna(p_val) THEN PyNone
  ELSE converted(float(p_val))

\* if sigma == 0: sigma = 0.1
floor_sigma(s) == IF s = 0 THEN FX(1, 1) ELSE s

\* sigma, floored: (hi - lo) / 3 if (hi - lo) != 0 else 0.1, then 0.1 if it is 0
sigma_of(hi, lo) ==
  floor_sigma(IF hi - lo # 0 THEN DivFX(hi - lo, FX(3, 0)) ELSE FX(1, 1))

\* s_eff = s_eff_sun + a*t + b*t^2 + c*t^3 + d*t^4 with t = 1000 u
s_eff_poly(s_eff_sun, a, b, c, d, u) ==
  LET u2 == MulFX(u, u)
      u3 == MulFX(u2, u)
      u4 == MulFX(u3, u)
  IN  s_eff_sun + MulFX(a, u) + MulFX(b, u2) + MulFX(c, u3) + MulFX(d, u4)

\* math.sqrt(stellar_luminosity / s_eff) * factor if s_eff > 0 else 0
hz_distance(stellar_luminosity, s_eff, factor) ==
  IF s_eff > 0 THEN MulFX(SqrtFX(DivFX(stellar_luminosity, s_eff)), factor) ELSE 0

\* L1: surface-mass plausibility, with mu_1_mp = pm ** 0.27 and mu_2_mp = pm ** 0.5
sephi_L1(pm, pr) ==
  LET L1_of(mu_1_mp, mu_2_mp) ==
        IF pr <= mu_1_mp THEN FXS
        ELSE IF mu_1_mp < pr /\ pr < mu_2_mp
             THEN Gauss(pr, mu_1_mp, sigma_of(mu_2_mp, mu_1_mp))
        ELSE 0
  IN  L1_of(PowFX(pm, FX(27, 2)), PowFX(pm, FX(5, 1)))

\* math.sqrt(g * r) with g = m / r ** 2
escape_velocity(m, r) == SqrtFX(MulFX(DivFX(m, MulFX(r, r)), r))

\* L2: escape velocity relative to Earth's
sephi_L2(pm, pr) ==
  LET \* v_e / earth_v_e if earth_v_e > 0 else 0
      relative_to(v_e, earth_v_e) == IF earth_v_e > 0 THEN DivFX(v_e, earth_v_e) ELSE 0
      L2_of(v_e_relative) ==
        IF v_e_relative < FXS
        THEN Gauss(v_e_relative, FXS, floor_sigma(DivFX(FXS - 0, FX(3, 0))))
        ELSE Gauss(v_e_relative, FXS, floor_sigma(DivFX(FX(866, 2) - FXS, FX(3, 0))))
  IN  L2_of(relative_to(escape_velocity(pm, pr), escape_velocity(FXS, FXS)))

\* the semi-major axis when the period is taken in years, not days:
\* (sm * po^2)^(1/3)
semi_major_axis_of_years(sm, po) ==
  ExpFX((LnFX(sm) + 2 * (LnFX(po.m) + (6 - po.d) * LN10)) \div 3)

\* the orbit's semi-major axis in AU, by Kepler's third law
semi_major_axis_au(sm, po) ==
  LET \* math.log of the decimal v > 0, and of m * 10^e
      LnDec(v) == LnFX(v.m) + (6 - v.d) * LN10
      LnSci(m, e) == LnFX(m) + (6 + e) * LN10
      ln_G_const == LnSci(66743, -15)
      ln_stellar_mass_kg == LnFX(sm) + LnSci(1989, 27)
      ln_orbital_period_seconds == LnDec(po) + LnSci(864, 2)
      ln_4_pi_2 == LnFX(FX(4, 0)) + 2 * LnFX(FX(3141593, 6))
      ln_a_meters ==
        (ln_G_const + ln_stellar_mass_kg + 2 * ln_orbital_period_seconds - ln_4_pi_2) \div 3
      ln_au_per_meter_val == LnSci(668459, -17)
  IN  ExpFX(ln_a_meters + ln_au_per_meter_val)

\* (sr ** 2) * ((st / solar_teff_ref) ** 4), the temperatures in units of 1000 K
stellar_luminosity(sr, st) ==
  LET Square(x) == MulFX(x, x)
  IN  MulFX(Square(sr), Square(Square(DivFX(FX(st.m, st.d + 3), FX(5778, 3)))))

\* L3: position in the habitable zone, between the boundaries d1, d2_hz, d3_hz
\* and d4
sephi_L3(sr, st, semi_major_axis) ==
  LET \* (st - 5780) / 1000
      t_eff_diff == FX(st.m - 5780 * Pow10(st.d), st.d + 3)
      L3_of(d1, d2_hz, d3_hz, d4) ==
        IF d2_hz <= semi_major_axis /\ semi_major_axis <= d3_hz THEN FXS
        ELSE IF semi_major_axis < d2_hz
             THEN (IF semi_major_axis < d1 THEN 0
                   ELSE Gauss(semi_major_axis, d2_hz, sigma_of(d2_hz, d1)))
             ELSE (IF semi_major_axis > d4 THEN 0
                   ELSE Gauss(semi_major_axis, d3_hz, sigma_of(d4, d3_hz)))
      L3_bounds(luminosity, u) ==
        L3_of(hz_distance(luminosity,
                          s_eff_poly(FX(1766, 3), FX(1335, 4), FX(3151, 6), -FX(3348, 6),
                                     FX(5733, 7), u),
                          FX(68, 2)),
              hz_distance(luminosity,
                          s_eff_poly(FX(1038, 3), FX(1246, 4), FX(2874, 6), -FX(306, 5),
                                     FX(5279, 7), u),
                          FXS),
              hz_distance(luminosity,
                          s_eff_poly(FX(3438, 4), FX(5894, 5), FX(1628, 6), -FX(1698, 6),
                                     FX(292, 6), u),
                          FXS),
              hz_distance(luminosity,
                          s_eff_poly(FX(3179, 4), FX(5451, 5), FX(1526, 6), -FX(1598, 6),
                                     FX(2747, 7), u),
                          FX(135, 2)))
  IN  L3_bounds(stellar_luminosity(sr, st), t_eff_diff)

\* planet_density_actual: the given density, else Earth's scaled by pm / pr^3
\* (divided by pr^2 and by pr, which keeps a radius above 12 within range)
planet_density_actual(pdens, pm, pr) ==
  IF ~IsNone(pdens) THEN ToFX(pdens)
  ELSE MulFX(FX(551, 2), DivFX(DivFX(pm, MulFX(pr, pr)), pr))

\* the regime constants with the branches exchanged: the radius decides for
\* L1 > 0.5, and the other planets are tidally locked
regime_constants_exchanged(L1, pr, is_tidally_locked) ==
  IF L1 <= FX(5, 1)
  THEN <<FXS, pr, pr, FX(5, 2)>>
  ELSE IF pr <= FX(5, 0) THEN <<FX(45, 2), MulFX(FX(18, 1), pr), 4 * pr, FXS>>
  ELSE IF pr <= FX(15, 0) THEN <<FX(18, 2), MulFX(FX(48, 1), pr), 20 * pr, FXS>>
  ELSE <<FX(16, 2), 16 * pr, 100 * pr, FXS>>

\* the regime constants <<rho_0n, r_0n, F_n, alpha_val>> of L4
regime_constants(L1, pr, is_tidally_locked) ==
  IF L1 > FX(5, 1)
  THEN <<FXS, pr, pr, IF is_tidally_locked THEN FX(5, 2) ELSE FXS>>
  ELSE IF pr <= FX(5, 0) THEN <<FX(45, 2), MulFX(FX(18, 1), pr), 4 * pr, FXS>>
  ELSE IF pr <= FX(15, 0) THEN <<FX(18, 2), MulFX(FX(48, 1), pr), 20 * pr, FXS>>
  ELSE <<FX(16, 2), 16 * pr, 100 * pr, FXS>>

\* (sm ** (1/3)) * ((density / 5.51) ** (-1/3)) * (t_gyr_norm ** (1/6)) * 0.06
a_lock(sm, density, sa) ==
  MulFX(MulFX(MulFX(PowFX(sm, DivFX(FXS, FX(3, 0))),
                    PowFX(DivFX(density, FX(551, 2)), -DivFX(FXS, FX(3, 0)))),
              PowFX(DivFX(sa, FX(10, 0)), DivFX(FXS, FX(6, 0)))),
        FX(6, 2))

\* L4: magnetic field.  A density of 0 divides by zero in
\* (density / 5.51) ** (-1/3); a negative one makes a_lock complex, and the
\* comparison semi_major_axis <= a_lock raises TypeError.
sephi_L4(pm, pr, sm, sa, pdens, L1, semi_major_axis) ==
  LET \* math.log of M_n = alpha_val * rho_0n ** 0.5 * r_0n ** (10/3) * F_n ** (1/3)
      ln_M_n(c) ==
        LnFX(c[4]) + MulFX(FX(5, 1), LnFX(c[1]))
          + MulFX(DivFX(FX(10, 0), FX(3, 0)), LnFX(c[2]))
          + MulFX(DivFX(FXS, FX(3, 0)), LnFX(c[3]))
      \* 1.0 if M_n_val >= 1.0 else the Gaussian of M_n_val around mu_4 = 1
      L4_of_M(lnM) ==
        IF lnM >= 0 THEN FXS
        ELSE Gauss(ExpFX(lnM), FXS, floor_sigma(DivFX(FXS - 0, FX(3, 0))))
      L4_of_density(density) ==
        IF density = 0 THEN Raise("ZeroDivisionError")
        ELSE IF density < 0 THEN Raise("TypeError")
        ELSE Ret(L4_of_M(ln_M_n(regime_constants(L1, pr,
                                                 semi_major_axis <= a_lock(sm, density, sa)))))
  IN  L4_of_density(planet_density_actual(pdens, pm, pr))

\* the arithmetic mean of the four factors
sephi_mean_arithmetic(L1, L2, L3, L4) == (L1 + L2 + L3 + L4) \div 4

\* (L1 * L2 * L3 * L4) ** (1/4) if L1 * L2 * L3 * L4 > 0 else 0.0
sephi_mean(L1, L2, L3, L4) ==
  IF L1 > 0 /\ L2 > 0 /\ L3 > 0 /\ L4 > 0
  THEN ExpFX((LnFX(L1) + LnFX(L2) + LnFX(L3) + LnFX(L4)) \div 4)
  ELSE 0

\* the value of a fixed-point fraction as a percentage: x * 100
Percent(x) == Dec(x, 4)

sephi_none == <<PyNone, PyNone, PyNone, PyNone, PyNone>>

\* the check of the seven converted core parameters: TRUE when the calculation
\* is skipped (one is None, or one is not positive)
sephi_skipped(core) ==
  \/ \E i \in 1..7 : IsNone(core[i])
  \/ \E i \in 1..7 : ~IsNone(core[i]) /\ Le(core[i], Int_(0))

\* lines 252-261: the five percentages, or what L4 raised
sephi_result(L1, L2, L3, r4) ==
  IF ~r4.ok THEN r4
  ELSE Ret(<<Percent(sephi_mean(L1, L2, L3, r4.v)), Percent(L1), Percent(L2),
             Percent(L3), Percent(r4.v)>>)

\* lines 199-251: L2, L3 and L4, once L1 and the semi-major axis are known
sephi_levels(pm, pr, sm, sr, st, sa, pdens, L1, semi_major_axis) ==
  sephi_result(L1, sephi_L2(pm, pr), sephi_L3(sr, st, semi_major_axis),
               sephi_L4(pm, pr, sm, sa, pdens, L1, semi_major_axis))

\* lines 187-218: L1 and the semi-major axis
sephi_components(pm, pr, po, sm, sr, st, sa, pdens) ==
  sephi_levels(pm, pr, sm, sr, st, sa, pdens, sephi_L1(pm, pr),
               semi_major_axis_au(sm, po))

\* lines 179-185 on the converted parameters: the density conversion raises
\* before the checks
sephi_checked(core, dens) ==
  IF ~dens.ok THEN Raise(dens.exc)
  ELSE IF sephi_skipped(core) THEN Ret(sephi_none)
  ELSE sephi_components(ToFX(core[1]), ToFX(core[2]), core[3], ToFX(core[4]),
                        ToFX(core[5]), core[6], ToFX(core[7]), dens.v)

\* calculate_sephi(planet_mass, planet_radius, orbital_period, stellar_mass,
\*                 stellar_radius, stellar_teff, system_age, planet_density_val):
\* <<sephi_val * 100, L1 * 100, L2 * 100, L3 * 100, L4 * 100>>, five None, or
\* what the density conversion or L4 raised
calculate_sephi(planet_mass, planet_radius, orbital_period, stellar_mass, stellar_radius, stellar_teff, system_age, planet_density_val) ==
  sephi_checked(<<converted_param(planet_mass), converted_param(planet_radius),
                  converted_param(orbital_period), converted_param(stellar_mass),
                  converted_param(stellar_radius), converted_param(stellar_teff),
                  converted_param(system_age)>>,
                \* pdens = float(planet_density_val) if it is neither None nor NaN
                IF ~IsNone(planet_density_val) /\ ~pd_isna(planet_density_val)
                THEN float(planet_density_val) ELSE Ret(PyNone))

(***************************************************************************)
(* The three indices.  Slider weights and temperatures are exact decimals; *)
(* a quotient is kept to six decimals.                                     *)
(***************************************************************************)
DecAdd(a, b) ==
  LET d == IF a.d >= b.d THEN a.d ELSE b.d
  IN  Dec(a.m * Pow10(d - a.d) + b.m * Pow10(d - b.d), d)

DecNeg(a) == Dec(-a.m, a.d)

DecSub(a, b) == DecAdd(a, DecNeg(b))

DecAbs(a) == Dec(Abs(a.m), a.d)

\* max(a, b) and min(a, b) of Python: the first argument unless the second is
\* strictly greater (strictly less)
max(a, b) == IF Gt(b, a) THEN b ELSE a

min(a, b) == IF Lt(b, a) THEN b ELSE a

RECURSIVE sum(_)
sum(components) ==
  IF components = <<>> THEN Int_(0)
  ELSE DecAdd(Head(components), sum(Tail(components)))

\* a final score with its colour: (round(final, 2), get_color_for_percentage(final))
index_score(final) == <<round(final, 2), get_color_for_percentage(final, TRUE)>>

\* (sum(components) / len(components)) * scale
mean_scaled(components, scale) ==
  DecMul(DecDiv(sum(components), Int_(Len(components)), 6), Int_(scale))

\* calculate_esi_score counting only the weights whose planet field is present
esi_of_present_fields(planet_data, weights) ==
  LET esi_factors_map == <<<<"pl_rade", "Size">>, <<"pl_dens", "Density">>,
                           <<"pl_eqt", "Habitable Zone">>>>
      present == SelectSeq(esi_factors_map, LAMBDA e : pd_notna(Get(planet_data, e[1])))
  IN  IF present = <<>> THEN <<Int_(0), get_color_for_percentage(Int_(0), TRUE)>>
      ELSE index_score(mean_scaled([i \in 1..Len(present) |->
                                      GetOr(weights, present[i][2], Int_(0))], 100))

\* calculate_esi_score(planet_data, weights): <<score, colour>>
calculate_esi_score(planet_data, weights) ==
  index_score(mean_scaled(<<GetOr(weights, "Size", Int_(0)),
                            GetOr(weights, "Density", Int_(0)),
                            GetOr(weights, "Habitable Zone", Int_(0))>>, 100))

\* sph_band with the flat bands drawn at 260 K and 363.15 K instead of 250 K
\* and 373.15 K
sph_band_narrow(temp_k_fl) ==
  IF Le(Dec(27315, 2), temp_k_fl) /\ Le(temp_k_fl, Dec(32315, 2))
  THEN DecAdd(Int_(70),
              DecMul(DecSub(Int_(1),
                            DecDiv(DecAbs(DecSub(temp_k_fl, Dec(29815, 2))), Int_(25), 6)),
                     Int_(30)))
  ELSE IF \/ Le(Int_(260), temp_k_fl) /\ Lt(temp_k_fl, Dec(27315, 2))
          \/ Lt(Dec(32315, 2), temp_k_fl) /\ Le(temp_k_fl, Dec(36315, 2))
  THEN Int_(40)
  ELSE Int_(10)

\* the score of calculate_sph_score for the temperature temp_k_fl, before rounding
sph_band(temp_k_fl) ==
  LET mid_optimal == Dec(29815, 2)
  IN  IF Le(Dec(27315, 2), temp_k_fl) /\ Le(temp_k_fl, Dec(32315, 2))
      THEN DecAdd(Int_(70),
                  DecMul(DecSub(Int_(1),
                                DecDiv(DecAbs(DecSub(temp_k_fl, mid_optimal)),
                                       DecSub(mid_optimal, Dec(27315, 2)), 6)),
                         Int_(30)))
      ELSE IF \/ Le(Int_(250), temp_k_fl) /\ Lt(temp_k_fl, Dec(27315, 2))
              \/ Lt(Dec(32315, 2), temp_k_fl) /\ Le(temp_k_fl, Dec(37315, 2))
      THEN Int_(40)
      ELSE Int_(10)

\* calculate_sph_score(planet_data, weights): <<score, colour>>
calculate_sph_score(planet_data, weights) ==
  LET \* the try block, on the outcome f of float(temp_k)
      sph_of_float(f) ==
        IF f.ok THEN index_score(max(Int_(0), min(sph_band(f.v), Int_(100))))
        ELSE <<Int_(0), get_color_for_percentage(Int_(0), TRUE)>>
  IN  IF pd_notna(Get(planet_data, "pl_eqt"))
      THEN sph_of_float(float(Get(planet_data, "pl_eqt")))
      ELSE <<Int_(0), get_color_for_percentage(Int_(0), TRUE)>>

expected_factors == <<"Solid Surface", "Stable Energy", "Life Compounds", "Stable Orbit">>

\* phi_clamp without the clamp
phi_unclamped(final_phi) == final_phi

\* the clamp of calculate_phi_score: max(0.0, min(final_phi, 100.0))
phi_clamp(final_phi) == max(Int_(0), min(final_phi, Int_(100)))

\* calculate_phi_score with the mean taken over the factors present in phi_weights
phi_of_present_factors(planet_data, phi_weights) ==
  LET present == SelectSeq(expected_factors, LAMBDA f : f \in DOMAIN phi_weights)
  IN  IF present = <<>> THEN <<Int_(0), get_color_for_percentage(Int_(0), TRUE)>>
      ELSE index_score(phi_clamp(mean_scaled([i \in 1..Len(present) |->
                                                phi_weights[present[i]]], 400)))

\* calculate_phi_score(planet_data, phi_weights): <<score, colour>>
calculate_phi_score(planet_data, phi_weights) ==
  index_score(phi_clamp(mean_scaled(
    [i \in 1..Len(expected_factors) |-> GetOr(phi_weights, expected_factors[i], Int_(0))],
    400)))

(***************************************************************************)
(* calculate_detailed_habitability_scores                                  *)
(***************************************************************************)
\* a tuple of Python values, and the test "x and len(x) == 5" on a tuple or None
PyTuple(items) == [t |-> "tuple", items |-> items]

is_five_tuple(x) == x.t = "tuple" /\ Len(x.items) = 5

\* to_float_or_none reading a missing value as 0.0
to_float_or_zero(val) ==
  IF pd_isna(val) \/ IsNone(val) THEN Int_(0) ELSE converted(float(val))

\* to_float_or_none(val): a float, or None for None, NaN and unparseable text
to_float_or_none(val) ==
  IF pd_isna(val) \/ IsNone(val) THEN PyNone ELSE converted(float(val))

\* a <= x <= b, a <= x < b, a < x <= b on numbers
InCC(a, x, b) == Le(a, x) /\ Le(x, b)

InCO(a, x, b) == Le(a, x) /\ Lt(x, b)

InOC(a, x, b) == Lt(a, x) /\ Le(x, b)

\* needle in classification
In(needle, classification) == Contains(classification.s, needle)

\* a score with its colour: (score_val, get_color_for_percentage(score_val))
Scored(score_val) == <<Int_(score_val), get_color_for_percentage(Int_(score_val), TRUE)>>

size_score(radius, classification) ==
  IF IsNone(radius) THEN 0
  ELSE IF In(<<"T", "e", "r", "r", "a", "n">>, classification) /\ InCC(Dec(8, 1), radius, Dec(15, 1)) THEN 100
  ELSE IF \/ /\ In(<<"M", "i", "n", "i", "-", "T", "e", "r", "r", "a", "n">>, classification) \/ In(<<"S", "u", "b", "t", "e", "r", "r", "a", "n">>, classification)
             /\ InCO(Dec(5, 1), radius, Dec(8, 1))
          \/ In(<<"T", "e", "r", "r", "a", "n">>, classification) /\ InOC(Dec(15, 1), radius, Dec(20, 1))
          \/ In(<<"S", "u", "p", "e", "r", "t", "e", "r", "r", "a", "n">>, classification) /\ Le(radius, Dec(25, 1))
  THEN 90
  ELSE IF \/ In(<<"S", "u", "p", "e", "r", "t", "e", "r", "r", "a", "n">>, classification) /\ InOC(Dec(25, 1), radius, Dec(45, 1))
          \/ In(<<"N", "e", "p", "t", "u", "n", "i", "a", "n">>, classification) /\ Le(radius, Dec(50, 1))
  THEN 70
  ELSE 30

\* density_score with the bounds 4.5 and 6.5 of its first rule excluded
density_score_open(density, classification) ==
  IF IsNone(density) THEN 0
  ELSE IF In(<<"T", "e", "r", "r", "a", "n">>, classification) /\ Lt(Dec(45, 1), density) /\ Lt(density, Dec(65, 1)) THEN 100
  ELSE 90

density_score(density, classification) ==
  IF IsNone(density) THEN 0
  ELSE IF In(<<"T", "e", "r", "r", "a", "n">>, classification) /\ InCC(Dec(45, 1), density, Dec(65, 1)) THEN 100
  ELSE IF \/ /\ In(<<"T", "e", "r", "r", "a", "n">>, classification) \/ In(<<"S", "u", "p", "e", "r", "t", "e", "r", "r", "a", "n">>, classification)
             /\ InCO(Dec(30, 1), density, Dec(45, 1))
          \/ /\ In(<<"T", "e", "r", "r", "a", "n">>, classification) \/ In(<<"S", "u", "p", "e", "r", "t", "e", "r", "r", "a", "n">>, classification)
             /\ InOC(Dec(65, 1), density, Dec(80, 1))
  THEN 90
  ELSE IF /\ \/ In(<<"M", "i", "n", "i", "-", "T", "e", "r", "r", "a", "n">>, classification)
             \/ In(<<"S", "u", "b", "t", "e", "r", "r", "a", "n">>, classification)
             \/ In(<<"S", "u", "p", "e", "r", "t", "e", "r", "r", "a", "n">>, classification)
          /\ Lt(density, Dec(30, 1)) \/ Gt(density, Dec(80, 1))
  THEN 70
  ELSE 50

mass_score(mass, classification) ==
  IF IsNone(mass) THEN 0
  ELSE IF In(<<"T", "e", "r", "r", "a", "n">>, classification) /\ InCC(Dec(8, 1), mass, Dec(15, 1)) THEN 100
  ELSE IF \/ /\ In(<<"M", "i", "n", "i", "-", "T", "e", "r", "r", "a", "n">>, classification) \/ In(<<"S", "u", "b", "t", "e", "r", "r", "a", "n">>, classification)
             /\ InCO(Dec(1, 1), mass, Dec(8, 1))
          \/ In(<<"T", "e", "r", "r", "a", "n">>, classification) /\ InOC(Dec(15, 1), mass, Dec(20, 1))
          \/ In(<<"S", "u", "p", "e", "r", "t", "e", "r", "r", "a", "n">>, classification) /\ Le(mass, Dec(50, 1))
  THEN 90
  ELSE IF \/ In(<<"S", "u", "p", "e", "r", "t", "e", "r", "r", "a", "n">>, classification) /\ InOC(Dec(50, 1), mass, Dec(100, 1))
          \/ In(<<"N", "e", "p", "t", "u", "n", "i", "a", "n">>, classification) /\ Le(mass, Dec(200, 1))
  THEN 70
  ELSE 30

\* atm_score and water_score (always equal)
atm_water_score(temp_eq) ==
  IF IsNone(temp_eq) THEN 0
  ELSE IF InOC(Dec(27315, 2), temp_eq, Dec(37315, 2)) THEN 90
  ELSE IF InCC(Int_(200), temp_eq, Dec(27315, 2)) \/ InOC(Dec(37315, 2), temp_eq, Int_(450))
  THEN 50
  ELSE 20

\* the luminosity fallback: 80 inside [sqrt(L / 1.1), sqrt(L / 0.53)], else 25
hz_lum_score(st_lum_log, orbit_dist_au) ==
  LET \* hz_in_calc <= orbit_dist_au <= hz_out_calc
      hz_lum_inside(lum_linear, orbit) ==
        /\ SqrtFX(DivFX(lum_linear, FX(11, 1))) <= orbit
        /\ orbit <= SqrtFX(DivFX(lum_linear, FX(53, 2)))
  IN  IF hz_lum_inside(ExpFX(MulFX(ToFX(st_lum_log), LN10)), ToFX(orbit_dist_au))
      THEN 80 ELSE 25

hz_score(hz_data_tuple, orbit_dist_au, st_lum_log) ==
  LET hz_bounds_score(ohz_in, chz_in, chz_out, ohz_out) ==
        IF ~IsNone(ohz_in) /\ ~IsNone(chz_in) /\ ~IsNone(chz_out) /\ ~IsNone(ohz_out)
        THEN IF InCC(chz_in, orbit_dist_au, chz_out) THEN 95
             ELSE IF \/ InCO(ohz_in, orbit_dist_au, chz_in)
                     \/ InOC(chz_out, orbit_dist_au, ohz_out)
             THEN 65
             ELSE 20
        ELSE 15
  IN  IF is_five_tuple(hz_data_tuple) /\ ~IsNone(orbit_dist_au)
      THEN hz_bounds_score(to_float_or_none(hz_data_tuple.items[1]),
                           to_float_or_none(hz_data_tuple.items[2]),
                           to_float_or_none(hz_data_tuple.items[3]),
                           to_float_or_none(hz_data_tuple.items[4]))
      ELSE IF ~IsNone(st_lum_log) /\ ~IsNone(orbit_dist_au)
      THEN hz_lum_score(st_lum_log, orbit_dist_au)
      ELSE 10

star_score(st_spectype) ==
  IF IsStr(st_spectype) /\ st_spectype.s # <<>>
  THEN IF StartsWith(st_spectype.s, <<"G">>) THEN 95
       ELSE IF StartsWith(st_spectype.s, <<"K">>) THEN 85
       ELSE IF StartsWith(st_spectype.s, <<"F">>) THEN 70
       ELSE IF StartsWith(st_spectype.s, <<"M">>) THEN 60
       ELSE 30
  ELSE 0

age_score(st_age_gyr) ==
  IF IsNone(st_age_gyr) THEN 0
  ELSE IF InCC(Dec(10, 1), st_age_gyr, Dec(80, 1)) THEN 90
  ELSE IF InCO(Dec(5, 1), st_age_gyr, Dec(10, 1)) \/ InOC(Dec(80, 1), st_age_gyr, Dec(100, 1))
  THEN 60
  ELSE 30

met_score(st_met_dex) ==
  IF IsNone(st_met_dex) THEN 0
  ELSE IF InCC(Dec(-5, 1), st_met_dex, Dec(5, 1)) THEN 90
  ELSE IF InCO(Dec(-10, 1), st_met_dex, Dec(-5, 1)) \/ InOC(Dec(5, 1), st_met_dex, Dec(10, 1))
  THEN 60
  ELSE 30

\* ecc_score with the band edges excluded
ecc_score_open(pl_orbeccen_val) ==
  IF IsNone(pl_orbeccen_val) THEN 0
  ELSE IF Lt(pl_orbeccen_val, Dec(1, 1)) THEN 95
  ELSE IF Lt(pl_orbeccen_val, Dec(3, 1)) THEN 70
  ELSE IF Lt(pl_orbeccen_val, Dec(5, 1)) THEN 40
  ELSE 10

ecc_score(pl_orbeccen_val) ==
  IF IsNone(pl_orbeccen_val) THEN 0
  ELSE IF Le(pl_orbeccen_val, Dec(1, 1)) THEN 95
  ELSE IF Le(pl_orbeccen_val, Dec(3, 1)) THEN 70
  ELSE IF Le(pl_orbeccen_val, Dec(5, 1)) THEN 40
  ELSE 10

\* the eccentricity score with its colour:
\* (ecc_score, get_color_for_percentage(ecc_score, high_is_good=False))
ecc_scored(score_val) == <<Int_(score_val), get_color_for_percentage(Int_(score_val), FALSE)>>

\* calculate_detailed_habitability_scores(planet_data_dict, hz_data_tuple, weights_config):
\* the scores dict from the converted fields
calculate_detailed_habitability_scores(planet_data_dict, hz_data_tuple, weights_config) ==
  LET detailed_scores(radius, mass, density, temp_eq, classification, hz, st_spectype,
                      st_age_gyr, st_met_dex, pl_orbeccen_val) ==
        [name \in {"Size", "Density", "Mass", "Atmosphere Potential",
                   "Liquid Water Potential", "Habitable Zone Position",
                   "Host Star Type", "System Age", "Star Metallicity",
                   "Orbital Eccentricity"} |->
           CASE name = "Size" -> Scored(size_score(radius, classification))
             [] name = "Density" -> Scored(density_score(density, classification))
             [] name = "Mass" -> Scored(mass_score(mass, classification))
             [] name = "Atmosphere Potential" -> Scored(atm_water_score(temp_eq))
             [] name = "Liquid Water Potential" -> Scored(atm_water_score(temp_eq))
             [] name = "Habitable Zone Position" -> Scored(hz)
             [] name = "Host Star Type" -> Scored(star_score(st_spectype))
             [] name = "System Age" -> Scored(age_score(st_age_gyr))
             [] name = "Star Metallicity" -> Scored(met_score(st_met_dex))
             [] name = "Orbital Eccentricity" -> ecc_scored(ecc_score(pl_orbeccen_val))]
  IN  detailed_scores(to_float_or_none(Get(planet_data_dict, "pl_rade")),
                      to_float_or_none(Get(planet_data_dict, "pl_masse")),
                      to_float_or_none(Get(planet_data_dict, "pl_dens")),
                      to_float_or_none(Get(planet_data_dict, "pl_eqt")),
                      GetOr(planet_data_dict, "classification",
                            Str(<<"U", "n", "k", "n", "o", "w", "n">>)),
                      hz_score(hz_data_tuple,
                               to_float_or_none(Get(planet_data_dict, "pl_orbsmax")),
                               to_float_or_none(Get(planet_data_dict, "st_lum"))),
                      GetOr(planet_data_dict, "st_spectype", Str(<<>>)),
                      to_float_or_none(Get(planet_data_dict, "st_age")),
                      to_float_or_none(Get(planet_data_dict, "st_met")),
                      to_float_or_none(Get(planet_data_dict, "pl_orbeccen")))

(***************************************************************************)
(* process_planet_data                                                     *)
(***************************************************************************)
Range(seq) == {seq[i] : i \in 1..Len(seq)}

fields_to_format_directly ==
  <<"pl_rade", "pl_masse", "pl_dens", "pl_eqt", "pl_orbper", "pl_orbsmax",
    "sy_dist", "st_teff", "st_rad", "st_mass", "st_lum",
    "discoverymethod", "disc_year", "disc_facility">>

numerical_fields_to_preserve == <<"pl_orbeccen", "st_age", "st_met">>

\* the precision of the first formatting loop, and of the second
first_precision(field) ==
  IF field = "st_teff" \/ field = "disc_year" THEN 0
  ELSE IF field \in {"st_lum", "st_met"} THEN 3 ELSE 2

second_precision(field) ==
  IF field = "st_teff" \/ field = "disc_year" THEN 0
  ELSE IF field \in {"pl_orbeccen", "st_lum", "st_met"} THEN 3 ELSE 2

\* the second loop: float(value) if pd.notna(value) else None, None on
\* ValueError or TypeError
preserve_numerical(planet_data_dict) ==
  LET preserved(value) == IF pd_notna(value) THEN converted(float(value)) ELSE PyNone
  IN  Update(planet_data_dict,
             [field \in Range(numerical_fields_to_preserve) |->
                preserved(Get(planet_data_dict, field))])

\* the two formatting loops with the numerical fields preserved between them
formatted_dict(planet_data_dict) ==
  LET format_directly(dict, precision(_)) ==
        Update(dict,
               [field \in Range(fields_to_format_directly) |->
                  format_value(Get(dict, field), precision(field), NA)])
  IN  format_directly(preserve_numerical(format_directly(planet_data_dict, first_precision)),
                      second_precision)

\* sy_dist_ly: float(sy_dist_pc) * 3.26156, or None when the distance is
\* missing or the conversion fails
light_years(sy_dist_pc) ==
  LET light_years_of(f) == IF f.ok THEN DecMul(f.v, Dec(326156, 5)) ELSE PyNone
  IN  IF pd_notna(sy_dist_pc) THEN light_years_of(float(sy_dist_pc)) ELSE PyNone

star_info_of(planet_data_dict, sy_dist_ly) ==
  [name |-> format_value(Get(planet_data_dict, "hostname"), 2, NA),
   type |-> format_value(Get(planet_data_dict, "st_spectype"), 2, NA),
   temperature_k |-> format_value(Get(planet_data_dict, "st_teff"), 0, NA),
   radius_solar |-> format_value(Get(planet_data_dict, "st_rad"), 2, NA),
   mass_solar |-> format_value(Get(planet_data_dict, "st_mass"), 2, NA),
   luminosity_log_solar |-> format_value(Get(planet_data_dict, "st_lum"), 3, NA),
   age_gyr |-> format_value(Get(planet_data_dict, "st_age"), 2, NA),
   metallicity_dex |-> format_value(Get(planet_data_dict, "st_met"), 2, NA),
   distance_ly |-> format_value(sy_dist_ly, 2, NA)]

orbit_info_of(planet_data_dict) ==
  [semi_major_axis_au |-> format_value(Get(planet_data_dict, "pl_orbsmax"), 2, NA),
   eccentricity |-> format_value(Get(planet_data_dict, "pl_orbeccen"), 3, NA),
   period_days |-> format_value(Get(planet_data_dict, "pl_orbper"), 2, NA),
   inclination_deg |-> format_value(Get(planet_data_dict, "pl_orbincl"), 2, NA),
   distance_from_star_au |-> format_value(Get(planet_data_dict, "pl_orbsmax"), 2, NA)]

hz_data_tuple_of(planet_data_dict) ==
  PyTuple(<<Get(planet_data_dict, "hz_ohzin"), Get(planet_data_dict, "hz_chzin"),
            Get(planet_data_dict, "hz_chzout"), Get(planet_data_dict, "hz_ohzout"),
            Get(planet_data_dict, "hz_teqa")>>)

sephi_names ==
  <<"SEPHI", "L1 (Surface)", "L2 (Escape Velocity)", "L3 (Habitable Zone)",
    "L4 (Magnetic Field)">>

\* sephi_scores_for_report from the five values calculate_sephi returned
sephi_scores_of(values) ==
  LET \* the rounded value with its colour
      sephi_scored(value, digits) ==
        <<round(value, digits), get_color_for_percentage(value, TRUE)>>
      NAColored == <<Str(NA), get_color_for_percentage(PyNone, TRUE)>>
  IN  IF ~IsNone(values[1])
      THEN [name \in Range(sephi_names) |->
              IF name = "SEPHI" THEN sephi_scored(values[1], 2)
              ELSE sephi_scored(values[CHOOSE j \in 2..5 : sephi_names[j] = name], 1)]
      ELSE [name \in {"SEPHI", "L1", "L2", "L3", "L4"} |-> NAColored]

\* planet_data_dict with the name filled in (lines 663-664)
named(planet_name, combined_data) ==
  IF "pl_name" \notin DOMAIN combined_data \/ pd_isna(combined_data["pl_name"])
  THEN Update(combined_data, [pl_name |-> planet_name])
  ELSE combined_data

\* planet_data_dict after lines 663-713: name, classification, travel times,
\* star and orbit information
enriched(planet_name, combined_data, classification_display) ==
  LET enriched_with(planet_data_dict, sy_dist_ly) ==
        Update(planet_data_dict,
               [classification |-> classification_display,
                travel_curiosities |-> calculate_travel_times(sy_dist_ly),
                star_info |-> star_info_of(planet_data_dict, sy_dist_ly),
                orbit_info |-> orbit_info_of(planet_data_dict)])
      enriched_named(planet_data_dict) ==
        enriched_with(planet_data_dict, light_years(Get(planet_data_dict, "sy_dist")))
  IN  enriched_named(named(planet_name, combined_data))

\* scores_for_report: the three indices (lines 718-721), updated with the
\* detailed scores
scores_for_report_of(planet_data_dict, hz_data_tuple, weights_config) ==
  LET basic_scores(habitability, phi) ==
        [name \in {"ESI", "SPH", "PHI"} |->
           CASE name = "ESI" -> calculate_esi_score(planet_data_dict, habitability)
             [] name = "SPH" -> calculate_sph_score(planet_data_dict, habitability)
             [] name = "PHI" -> calculate_phi_score(planet_data_dict, phi)]
  IN  Update(basic_scores(GetOr(weights_config, "habitability", <<>>),
                          GetOr(weights_config, "phi", <<>>)),
             calculate_detailed_habitability_scores(planet_data_dict, hz_data_tuple,
                                                    weights_config))

\* the returned dict (lines 773-783)
report(formatted, scores, sephi_scores, hz_data_tuple, st_lum) ==
  [planet_data_dict |-> formatted,
   scores_for_report |-> scores,
   sephi_scores_for_report |-> sephi_scores,
   hz_data_tuple |-> hz_data_tuple,
   star_data_for_plot |-> [st_lum |-> st_lum],
   classification_display |-> Get(formatted, "classification"),
   travel_curiosities |-> Get(formatted, "travel_curiosities"),
   star_info |-> Get(formatted, "star_info"),
   orbit_info |-> Get(formatted, "orbit_info")]

\* lines 718-783 once calculate_sephi has returned or raised
process_scored(planet_data_dict, hz_data_tuple, sephi, weights_config) ==
  IF ~sephi.ok THEN sephi
  ELSE Ret(report(formatted_dict(planet_data_dict),
                  scores_for_report_of(planet_data_dict, hz_data_tuple, weights_config),
                  sephi_scores_of(sephi.v), hz_data_tuple,
                  Get(planet_data_dict, "st_lum")))

\* lines 709-744 on the enriched planet_data_dict
process_enriched(planet_data_dict, weights_config) ==
  process_scored(planet_data_dict, hz_data_tuple_of(planet_data_dict),
                 calculate_sephi(Get(planet_data_dict, "pl_masse"),
                                 Get(planet_data_dict, "pl_rade"),
                                 Get(planet_data_dict, "pl_orbper"),
                                 Get(planet_data_dict, "st_mass"),
                                 Get(planet_data_dict, "st_rad"),
                                 Get(planet_data_dict, "st_teff"),
                                 Get(planet_data_dict, "st_age"),
                                 Get(planet_data_dict, "pl_dens")),
                 weights_config)

\* lines 672-783 once classify_planet has returned or raised
process_classified(planet_name, combined_data, weights_config, classification) ==
  IF ~classification.ok THEN classification
  ELSE process_enriched(enriched(planet_name, combined_data, classification.v),
                        weights_config)

\* process_planet_data(planet_name, combined_data, weights_config): the result
\* dict, or the exception that classify_planet or calculate_sephi raised
process_planet_data(planet_name, combined_data, weights_config) ==
  process_classified(planet_name, combined_data, weights_config,
                     classify_planet(Get(combined_data, "pl_masse"),
                                     Get(combined_data, "pl_rade"),
                                     Get(combined_data, "pl_eqt")))

(***************************************************************************)
(* The callers.  A call draws its arguments from the sets below: catalogue *)
(* rows as routes.py combines them, with at most MaxOverrides fields       *)
(* replaced by a value a user override or a sparse catalogue can supply    *)
(* (absent, NaN, blank or arbitrary text, a numeric string, zero, a        *)
(* negative number), and the slider weights of the session.                *)
(***************************************************************************)
MaxOverrides == 1

TextBlank == Str(<<" ">>)

TextWord == Str(<<"a", "b", "c">>)

TextNumber == Str(<<"1", ".", "5">>)

\* the values any field can take
AnyValues == {PyNone, PyNaN, TextBlank, TextWord, TextNumber, Int_(0), Int_(-1)}

Earth ==
  [pl_name |-> Str(<<"E", "a", "r", "t", "h">>), hostname |-> Str(<<"S", "u", "n">>),
   pl_masse |-> Int_(1), pl_rade |-> Int_(1), pl_dens |-> Dec(551, 2),
   pl_eqt |-> Int_(288), pl_orbper |-> Dec(36525, 2), pl_orbsmax |-> Int_(1),
   pl_orbeccen |-> Dec(17, 3), st_mass |-> Int_(1), st_rad |-> Int_(1),
   st_teff |-> Int_(5778), st_age |-> Dec(45, 1), st_lum |-> Int_(0),
   st_met |-> Int_(0), st_spectype |-> Str(<<"G", "2", "V">>), sy_dist |-> Dec(13, 1)]

\* a rocky planet of five Earth masses, with catalogued habitable-zone bounds
SuperEarth ==
  [pl_name |-> Str(<<"K", "-", "6", "2", " ", "f">>),
   pl_masse |-> Int_(5), pl_rade |-> Dec(14, 1), pl_dens |-> Dec(55, 1),
   pl_eqt |-> Int_(244), pl_orbper |-> Int_(300), pl_orbsmax |-> Dec(8, 1),
   pl_orbeccen |-> Dec(2, 1), st_mass |-> Dec(8, 1), st_rad |-> Dec(8, 1),
   st_teff |-> Int_(5000), st_age |-> Int_(6), st_lum |-> Dec(-4, 1),
   st_met |-> Dec(-6, 1), st_spectype |-> Str(<<"K", "2", "V">>), sy_dist |-> Int_(300),
   hz_ohzin |-> Dec(45, 2), hz_chzin |-> Dec(6, 1), hz_chzout |-> Dec(11, 1),
   hz_ohzout |-> Dec(12, 1), hz_teqa |-> Int_(250)]

\* a gas giant without a density or a name
Giant ==
  [pl_masse |-> Int_(317), pl_rade |-> Int_(11),
   pl_eqt |-> Int_(110), pl_orbper |-> Int_(4332), pl_orbsmax |-> Dec(52, 1),
   pl_orbeccen |-> Dec(6, 1), st_mass |-> Int_(1), st_rad |-> Int_(1),
   st_teff |-> Int_(5778), st_age |-> Dec(95, 1), st_lum |-> Int_(0),
   st_met |-> Dec(12, 1), st_spectype |-> Str(<<"F", "9">>)]

\* a small planet of a red dwarf, known by its radius only
DwarfPlanet ==
  [pl_name |-> PyNaN, pl_rade |-> Dec(9, 1), pl_eqt |-> Dec(30015, 2),
   pl_orbper |-> Int_(10), pl_orbsmax |-> Dec(5, 2), pl_orbeccen |-> Dec(4, 1),
   st_mass |-> Dec(2, 1), st_rad |-> Dec(2, 1), st_teff |-> Int_(3000),
   st_age |-> Dec(4, 1), st_lum |-> Dec(-22, 1), st_spectype |-> Str(<<"M", "4">>),
   sy_dist |-> Dec(124, 1)]

Rows == {Earth, SuperEarth, Giant, DwarfPlanet}

\* a super-Earth whose SPH (79.996) and escape-velocity factor (79.95) lie
\* just below a colour threshold
NearThreshold ==
  [pl_name |-> Str(<<"K", "-", "1", "1", " ", "b">>),
   pl_masse |-> Int_(11), pl_rade |-> Dec(15, 1), pl_dens |-> Dec(18, 0),
   pl_eqt |-> Dec(28148, 2), pl_orbper |-> Dec(36525, 2), pl_orbsmax |-> Int_(1),
   pl_orbeccen |-> Dec(17, 3), st_mass |-> Int_(1), st_rad |-> Int_(1),
   st_teff |-> Int_(5778), st_age |-> Dec(45, 1), st_lum |-> Int_(0),
   st_met |-> Int_(0), st_spectype |-> Str(<<"G", "2", "V">>), sy_dist |-> Dec(13, 1)]

\* the fields an override can replace
Fields ==
  {"pl_masse", "pl_rade", "pl_dens", "pl_eqt", "pl_orbper", "pl_orbsmax", "pl_orbeccen",
   "st_mass", "st_rad", "st_teff", "st_age", "st_lum", "st_met", "st_spectype", "sy_dist",
   "hz_chzin"}

\* every choice of at most MaxOverrides fields of the set fields, with their values
Overrides(fields, values) ==
  UNION {[chosen -> values] : chosen \in {c \in SUBSET fields : Cardinality(c) <= MaxOverrides}}

\* the slider weights: the defaults, halves that overshoot the PHI scale, none,
\* and a weight beyond the sliders' range, which the reference-values API
\* takes from the request as it comes
WeightConfigs ==
  {[habitability |-> [k \in {"Size", "Density", "Habitable Zone"} |-> Int_(1)],
    phi |-> [k \in Range(expected_factors) |-> Dec(25, 2)]],
   [habitability |-> [k \in {"Size", "Density", "Habitable Zone"} |->
                        IF k = "Size" THEN Dec(5, 1) ELSE IF k = "Density" THEN Dec(33, 2)
                        ELSE Int_(0)],
    phi |-> [k \in Range(expected_factors) |-> Dec(5, 1)]],
   [habitability |-> <<>>, phi |-> <<>>],
   [habitability |-> [k \in {"Size", "Density", "Habitable Zone"} |->
                        IF k = "Size" THEN Int_(2) ELSE Int_(1)],
    phi |-> [k \in Range(expected_factors) |-> Dec(25, 2)]]}

\* pc, op, args, result: the call in progress, with its arguments by value
\* as they were when it was made.  caller: the objects the caller holds and
\* passes by reference (loaded counts the records it has obtained).  calls:
\* the calls made on the caller's objects so far.  cache: the files of
\* CACHE_DIR by slug.  now: the clock, in hours.  session: the keys and
\* values of the client's Flask session.
VARIABLES pc, op, args, result, caller, calls, cache, now, session

vars == <<pc, op, args, result, caller, calls, cache, now, session>>

Init ==
  /\ pc = "idle"
  /\ op = "none"
  /\ args = <<>>
  /\ result = PyNone
  /\ caller = [loaded |-> 0, combined_data |-> <<>>, weights_config |-> <<>>]
  /\ calls = <<>>
  /\ cache = <<>>
  /\ now = 0
  /\ session = <<>>

\* the caller takes the result; the next call starts from scratch
Return ==
  /\ pc = "done"
  /\ pc' = "idle"
  /\ op' = "none"
  /\ args' = <<>>
  /\ result' = PyNone
  /\ UNCHANGED <<caller, calls, cache, now, session>>

\* routes.py: process_planet_data(planet_name, combined_data, weights_config)
CallProcess ==
  /\ pc = "idle"
  /\ \E row \in Rows \cup {NearThreshold}, override \in Overrides(Fields, AnyValues),
        weights_config \in WeightConfigs :
       LET combined_data == Update(row, override)
       IN  /\ args' = [planet_name |-> Str(<<"P", "l", "a", "n", "e", "t">>), combined_data |-> combined_data,
                       weights_config |-> weights_config]
           /\ result' = process_planet_data(Str(<<"P", "l", "a", "n", "e", "t">>), combined_data, weights_config)
  /\ op' = "process_planet_data"
  /\ pc' = "done"
  /\ UNCHANGED <<caller, calls, cache, now, session>>

SpecProcess == Init /\ [][CallProcess \/ Return]_vars

(***************************************************************************)
(* Direct calls of calculate_sephi (process_planet_data line 728 and the   *)
(* tests): four parameter sets, with at most MaxOverrides core parameters  *)
(* replaced, and every kind of density.                                    *)
(***************************************************************************)
\* pm, pr, po, sm, sr, st, sa of the Earth, of Jupiter, of a super-Earth of a K
\* star, of a small planet close to a red dwarf and of an inflated hot Jupiter
SephiBases ==
  {<<Int_(1), Int_(1), Dec(36525, 2), Int_(1), Int_(1), Int_(5778), Dec(45, 1)>>,
   <<Int_(317), Int_(11), Int_(4332), Int_(1), Int_(1), Int_(5778), Dec(45, 1)>>,
   <<Int_(5), Dec(16, 1), Int_(300), Dec(8, 1), Dec(8, 1), Int_(5000), Int_(6)>>,
   <<Dec(5, 1), Dec(9, 1), Int_(10), Dec(2, 1), Dec(2, 1), Int_(3000), Int_(8)>>,
   <<Int_(300), Int_(16), Int_(4), Int_(1), Int_(1), Int_(5778), Dec(45, 1)>>}

Densities ==
  {PyNone, PyNaN, Int_(0), Int_(-1), Dec(551, 2), Dec(133, 2), TextWord, TextNumber}

\* the parameters base with the positions of override replaced
Replaced(base, override) ==
  [i \in 1..Len(base) |-> IF i \in DOMAIN override THEN override[i] ELSE base[i]]

CallSephi ==
  /\ pc = "idle"
  /\ \E base \in SephiBases, override \in Overrides(1..7, AnyValues),
        planet_density_val \in Densities :
       /\ args' = [core |-> Replaced(base, override),
                   planet_density_val |-> planet_density_val]
       /\ result' = calculate_sephi(args'.core[1], args'.core[2], args'.core[3],
                                    args'.core[4], args'.core[5], args'.core[6],
                                    args'.core[7], planet_density_val)
  /\ op' = "calculate_sephi"
  /\ pc' = "done"
  /\ UNCHANGED <<caller, calls, cache, now, session>>

SpecSephi == Init /\ [][CallSephi \/ Return]_vars

(***************************************************************************)
(* Direct calls of calculate_detailed_habitability_scores: on the rows as  *)
(* process_planet_data passes them (classification filled in by            *)
(* classify_planet, the tuple of the row's hz_* fields) and as the tests   *)
(* call it (no tuple, any dict, the empty one included).                   *)
(***************************************************************************)
EmptyDict == <<>>

\* the row with its classification set, when classify_planet returns one
classified_row(row, classification) ==
  IF classification.ok THEN Update(row, [classification |-> classification.v]) ELSE row

DetailedDict(row) ==
  classified_row(row, classify_planet(Get(row, "pl_masse"), Get(row, "pl_rade"),
                                      Get(row, "pl_eqt")))

CallDetailed ==
  /\ pc = "idle"
  /\ \E row \in Rows \cup {EmptyDict}, override \in Overrides(Fields, AnyValues),
        with_tuple \in BOOLEAN :
       /\ args' = [planet_data_dict |-> DetailedDict(Update(row, override)),
                   hz_data_tuple |-> IF with_tuple
                                     THEN hz_data_tuple_of(Update(row, override))
                                     ELSE PyNone]
       /\ result' = Ret(calculate_detailed_habitability_scores(
                          args'.planet_data_dict, args'.hz_data_tuple, <<>>))
  /\ op' = "calculate_detailed_habitability_scores"
  /\ pc' = "done"
  /\ UNCHANGED <<caller, calls, cache, now, session>>

\* stands for a dict without the key
KeyAbsent == [t |-> "absent"]

\* the calls of the tests: a dict of a few keys, no tuple, with densities on
\* and around the bounds of lines 530-536 and eccentricities on and around
\* those of lines 600-603
CallDetailedDirect ==
  /\ pc = "idle"
  /\ \E classification \in {KeyAbsent, Str(<<"T", "e", "r", "r", "a", "n">>), Str(<<"M", "i", "n", "i", "-", "T", "e", "r", "r", "a", "n">>), Str(<<"S", "u", "b", "t", "e", "r", "r", "a", "n">>),
                             Str(<<"S", "u", "p", "e", "r", "t", "e", "r", "r", "a", "n">>), Str(<<"U", "n", "k", "n", "o", "w", "n">>),
                             Str(<<"T", "e", "r", "r", "a", "n", " ", "|", " ", "M", "e", "s", "o", "p", "l", "a", "n", "e", "t", " ", "(", "T", "e", "m", "p", "e", "r", "a", "t", "e", " ", "1", ")">>)},
        pl_dens \in {KeyAbsent, PyNone, PyNaN, TextWord, Str(<<"5", ".", "5">>), Int_(0), Dec(299, 2),
                      Int_(3), Dec(449, 2), Dec(45, 1), Int_(5), Dec(65, 1), Dec(651, 2),
                      Int_(8), Int_(9)},
        pl_orbeccen \in {KeyAbsent, PyNaN, Int_(0), Dec(5, 2), Dec(1, 1), Dec(11, 2),
                          Dec(3, 1), Dec(31, 2), Dec(5, 1), Dec(51, 2), Dec(6, 1), Int_(1)} :
       LET given == [pl_dens |-> pl_dens, pl_orbeccen |-> pl_orbeccen,
                     classification |-> classification]
       IN  /\ args' = [planet_data_dict |->
                         [k \in {key \in DOMAIN given : given[key] # KeyAbsent} |-> given[k]],
                       hz_data_tuple |-> PyNone]
           /\ result' = Ret(calculate_detailed_habitability_scores(
                              args'.planet_data_dict, PyNone, <<>>))
  /\ op' = "calculate_detailed_habitability_scores"
  /\ pc' = "done"
  /\ UNCHANGED <<caller, calls, cache, now, session>>

SpecDetailed == Init /\ [][CallDetailed \/ CallDetailedDirect \/ Return]_vars

(***************************************************************************)
(* Direct calls of calculate_sph_score: every band of the temperature and  *)
(* its edges, text and missing values, on any row and with any weights.    *)
(***************************************************************************)
Temperatures ==
  {Int_(250), Dec(27315, 2), Dec(29815, 2), Dec(32315, 2), Dec(37315, 2),
   Dec(24999, 2), Dec(27314, 2), Dec(32316, 2), Dec(37316, 2),
   Int_(288), Dec(28816, 2), Dec(3101, 1), Int_(400), Int_(0), Int_(-1),
   PyNone, PyNaN, TextBlank, TextWord, TextNumber, Str(<<"3", "0", "0">>)}

\* the dict without the key pl_eqt
WithoutTemperature(dict) == [k \in DOMAIN dict \ {"pl_eqt"} |-> dict[k]]

CallSph ==
  /\ pc = "idle"
  /\ \E row \in Rows \cup {EmptyDict}, weights_config \in WeightConfigs,
        temperature \in Temperatures \cup {KeyAbsent} :
       /\ args' = [planet_data |-> IF temperature = KeyAbsent THEN WithoutTemperature(row)
                                   ELSE Update(row, [pl_eqt |-> temperature]),
                   weights |-> weights_config.habitability]
       /\ result' = Ret(calculate_sph_score(args'.planet_data, args'.weights))
  /\ op' = "calculate_sph_score"
  /\ pc' = "done"
  /\ UNCHANGED <<caller, calls, cache, now, session>>

SpecSph == Init /\ [][CallSph \/ Return]_vars

(***************************************************************************)
(* Properties.  A call has returned or raised when pc = "done"; args holds *)
(* what it was called with and result what came back.                      *)
(***************************************************************************)
Done(name) == pc = "done" /\ op = name

\* the key is missing, or its value is None or NaN
Absent(dict, key) == pd_isna(Get(dict, key))

\* text that float() does not parse
NonNumericText(v) == IsStr(v) /\ ~float(v).ok

\* the score of the pair (value, colour) stored under name
ScoreOf(scores, name) == scores[name][1]

ColourOf(scores, name) == scores[name][2]

\* habitability weights in [0, 1] and phi weights >= 0
WeightsInRange(weights_config) ==
  /\ \A k \in DOMAIN weights_config.habitability :
       /\ Ge(weights_config.habitability[k], Int_(0))
       /\ Le(weights_config.habitability[k], Int_(1))
  /\ \A k \in DOMAIN weights_config.phi : Ge(weights_config.phi[k], Int_(0))

\* a number in [0, 100], or the text "N/A"
ScoreInRange(value) ==
  IF IsStr(value) THEN value.s = NA
  ELSE IsNum(value) /\ Ge(value, Int_(0)) /\ Le(value, Int_(100))

ScoresInRange(scores) == \A name \in DOMAIN scores : ScoreInRange(ScoreOf(scores, name))

Unusable(v) ==
  IsNone(v) \/ IsNaN(v) \/ NonNumericText(v) \/ (IsNum(v) /\ Le(v, Int_(0)))

\* C2: whenever one of the seven core inputs of calculate_sephi is None, NaN,
\* blank, unparseable or not strictly positive, the call returns
\* (None, None, None, None, None), whatever its other arguments.
C2_SkipsOnUnusableCore ==
  (Done("calculate_sephi") /\ \E i \in 1..7 : Unusable(args.core[i])) =>
    result = Ret(<<PyNone, PyNone, PyNone, PyNone, PyNone>>)

\* C2, for a density that converts (a number, None, NaN or numeric text): the
\* check of the core inputs itself returns the five None.
C2_SkipsWhenDensityConverts ==
  (/\ Done("calculate_sephi")
   /\ \E i \in 1..7 : Unusable(args.core[i])
   /\ ~NonNumericText(args.planet_density_val)) =>
    result = Ret(<<PyNone, PyNone, PyNone, PyNone, PyNone>>)

\* every value is a number, None, NaN or a non-numeric string
RecordInDomain(record) ==
  \A k \in DOMAIN record :
    IsNum(record[k]) \/ IsNone(record[k]) \/ IsNaN(record[k]) \/ NonNumericText(record[k])

\* C3: process_planet_data never raises for a record whose values are numbers,
\* None, NaN or non-numeric strings (a non-numeric string in pl_masse, pl_rade,
\* pl_eqt or pl_dens included): it always returns a bundle.
C3_NeverRaises ==
  (Done("process_planet_data") /\ RecordInDomain(args.combined_data)) => result.ok

\* C4: once the seven core inputs are strictly positive numbers, calculate_sephi
\* returns five numbers for every density that is absent, zero, negative or
\* positive.
C4_CompletesForEveryDensity ==
  (/\ Done("calculate_sephi")
   /\ \A i \in 1..7 : IsNum(args.core[i]) /\ Gt(args.core[i], Int_(0))
   /\ pd_isna(args.planet_density_val) \/ IsNum(args.planet_density_val)) =>
    /\ result.ok
    /\ Len(result.v) = 5
    /\ \A j \in 1..5 : IsNum(result.v[j])

\* C5: for a classification of mass class Superterran produced by
\* classify_planet, a radius in [0.8, 1.5] scores Size 100 and a density in
\* [4.5, 6.5] scores Density 100.
C5_SuperterranAsTerran ==
  (/\ Done("calculate_detailed_habitability_scores")
   /\ "classification" \in DOMAIN args.planet_data_dict
   /\ StartsWith(args.planet_data_dict.classification.s, <<"S", "u", "p", "e", "r", "t", "e", "r", "r", "a", "n">>)) =>
    /\ (/\ IsNum(Get(args.planet_data_dict, "pl_rade"))
        /\ InCC(Dec(8, 1), Get(args.planet_data_dict, "pl_rade"), Dec(15, 1))) =>
         NumEq(ScoreOf(result.v, "Size"), Int_(100))
    /\ (/\ IsNum(Get(args.planet_data_dict, "pl_dens"))
        /\ InCC(Dec(45, 1), Get(args.planet_data_dict, "pl_dens"), Dec(65, 1))) =>
         NumEq(ScoreOf(result.v, "Density"), Int_(100))

HzBoundaries == {"hz_ohzin", "hz_chzin", "hz_chzout", "hz_ohzout"}

\* C6: when the record has none of hz_ohzin, hz_chzin, hz_chzout, hz_ohzout
\* but has pl_orbsmax and st_lum, the Habitable Zone Position score of the
\* bundle is 80 for an orbit within [sqrt(L / 1.1), sqrt(L / 0.53)],
\* L = 10 ^ st_lum, and 25 otherwise.
C6_LuminosityFallback ==
  (/\ Done("process_planet_data") /\ result.ok
   /\ \A k \in HzBoundaries : Absent(args.combined_data, k)
   /\ IsNum(Get(args.combined_data, "pl_orbsmax"))
   /\ IsNum(Get(args.combined_data, "st_lum"))) =>
    NumEq(ScoreOf(result.v.scores_for_report, "Habitable Zone Position"),
          Int_(hz_lum_score(Get(args.combined_data, "st_lum"),
                            Get(args.combined_data, "pl_orbsmax"))))

\* the factors that read one field, with the field
FactorFields ==
  {<<"Size", "pl_rade">>, <<"Density", "pl_dens">>, <<"Mass", "pl_masse">>,
   <<"Atmosphere Potential", "pl_eqt">>, <<"Liquid Water Potential", "pl_eqt">>,
   <<"Host Star Type", "st_spectype">>, <<"System Age", "st_age">>,
   <<"Star Metallicity", "st_met">>, <<"Orbital Eccentricity", "pl_orbeccen">>}

\* each of the nine one-field factors is 0 when its field is absent
AbsentFieldsScoreZero ==
  \A factor \in FactorFields :
    Absent(args.planet_data_dict, factor[2]) => NumEq(ScoreOf(result.v, factor[1]), Int_(0))

\* C7: in calculate_detailed_habitability_scores each of Size, Density, Mass,
\* Atmosphere Potential, Liquid Water Potential, Host Star Type, System Age,
\* Star Metallicity and Orbital Eccentricity is exactly 0 when the field it
\* reads is absent; Habitable Zone Position is exactly 10, not 0, when the
\* orbit distance is absent.
C7_AbsentFieldDefaults ==
  Done("calculate_detailed_habitability_scores") =>
    /\ AbsentFieldsScoreZero
    /\ Absent(args.planet_data_dict, "pl_orbsmax") =>
         NumEq(ScoreOf(result.v, "Habitable Zone Position"), Int_(10))

\* a call with no field given and no tuple: nine zeros and a 10
C7_Witness ==
  /\ Done("calculate_detailed_habitability_scores")
  /\ args.hz_data_tuple = PyNone
  /\ \A factor \in FactorFields : Absent(args.planet_data_dict, factor[2])
  /\ Absent(args.planet_data_dict, "pl_orbsmax") /\ Absent(args.planet_data_dict, "st_lum")
  /\ NumEq(ScoreOf(result.v, "Size"), Int_(0))
  /\ NumEq(ScoreOf(result.v, "Orbital Eccentricity"), Int_(0))
  /\ NumEq(ScoreOf(result.v, "Habitable Zone Position"), Int_(10))

\* C7 as stated: all ten factors, Habitable Zone Position included, are exactly
\* 0 when the fields they read (for the habitable zone: the boundaries, the
\* orbit distance and the luminosity) are absent.
C7_AllTenZero ==
  Done("calculate_detailed_habitability_scores") =>
    /\ AbsentFieldsScoreZero
    /\ (/\ args.hz_data_tuple = PyNone
           \/ \A k \in HzBoundaries : Absent(args.planet_data_dict, k)
        /\ Absent(args.planet_data_dict, "pl_orbsmax")
        /\ Absent(args.planet_data_dict, "st_lum")) =>
         NumEq(ScoreOf(result.v, "Habitable Zone Position"), Int_(0))

FifteenNames ==
  {"ESI", "SPH", "PHI", "Size", "Density", "Mass", "Atmosphere Potential",
   "Liquid Water Potential", "Habitable Zone Position", "Host Star Type", "System Age",
   "Star Metallicity", "Orbital Eccentricity", "Magnetic Activity", "Presence of Moons"}

\* C8: scores_for_report of every bundle process_planet_data returns has an
\* entry for each of the fifteen score names, Magnetic Activity and Presence
\* of Moons included.
C8_FifteenScores ==
  (Done("process_planet_data") /\ result.ok) =>
    FifteenNames \subseteq DOMAIN result.v.scores_for_report

\* the colour levels, best to worst: green 4, light green 3, amber 2, orange 1, red 0
ColourLevel(colour) ==
  CASE colour = "#4CAF50" -> 4
    [] colour = "#8BC34A" -> 3
    [] colour = "#FFC107" -> 2
    [] colour = "#FF9800" -> 1
    [] colour = "#F44336" -> 0
    [] OTHER -> -1

Eccentricities ==
  {Int_(0), Dec(17, 3), Dec(1, 1), Dec(2, 1), Dec(3, 1), Dec(4, 1), Dec(5, 1), Dec(6, 1),
   Dec(9, 1)}

\* C9: the colour of the Orbital Eccentricity score marks low eccentricity as
\* good: green for an eccentricity <= 0.1, red for one > 0.5, and never a worse
\* colour for a lower eccentricity than for a higher one.
C9_LowEccentricityIsGood ==
  (/\ Done("calculate_detailed_habitability_scores")
   /\ IsNum(Get(args.planet_data_dict, "pl_orbeccen"))) =>
    /\ Le(Get(args.planet_data_dict, "pl_orbeccen"), Dec(1, 1)) =>
         ColourOf(result.v, "Orbital Eccentricity") = "#4CAF50"
    /\ Gt(Get(args.planet_data_dict, "pl_orbeccen"), Dec(5, 1)) =>
         ColourOf(result.v, "Orbital Eccentricity") = "#F44336"
    /\ \A lower \in Eccentricities :
         Le(lower, Get(args.planet_data_dict, "pl_orbeccen")) =>
           ColourLevel(ecc_scored(ecc_score(lower))[2])
             >= ColourLevel(ColourOf(result.v, "Orbital Eccentricity"))

\* the temperature calculate_sph_score reads: a number, or None when pl_eqt is
\* absent or does not parse
TemperatureOf(planet_data) ==
  IF Absent(planet_data, "pl_eqt") THEN PyNone
  ELSE converted(float(Get(planet_data, "pl_eqt")))

\* 1000 * (70 + 30 * (1 - |T - 298.15| / 25)) = 100000 - 12 * |100 T - 29815|,
\* an integer for a temperature of at most two decimals
RampTimes1000(T) == 100000 - 12 * Abs(T.m * Pow10(2 - T.d) - 29815)

\* 1000 times a score of at most three decimals
Times1000(score) == score.m * Pow10(3 - score.d)

InRamp(T) == Le(Dec(27315, 2), T) /\ Le(T, Dec(32315, 2))

InFlat(T) ==
  \/ Le(Int_(250), T) /\ Lt(T, Dec(27315, 2))
  \/ Lt(Dec(32315, 2), T) /\ Le(T, Dec(37315, 2))

\* the score outside the ramp: 0 without a temperature, 40 in the flat bands, 10 elsewhere
SphOutsideRamp(T, score) ==
  IF IsNone(T) THEN NumEq(score, Int_(0))
  ELSE IF InFlat(T) THEN NumEq(score, Int_(40))
  ELSE NumEq(score, Int_(10))

\* C10: calculate_sph_score depends on pl_eqt only.  For 273.15 <= T <= 323.15
\* the score is 70 + 30 * (1 - |T - 298.15| / 25) rounded to two decimals, in
\* [70, 100]; for 250 <= T < 273.15 or 323.15 < T <= 373.15 it is exactly 40;
\* for any other number exactly 10; for an absent or unparseable temperature
\* exactly 0.
C10_SphRounded ==
  Done("calculate_sph_score") =>
    IF ~IsNone(TemperatureOf(args.planet_data)) /\ InRamp(TemperatureOf(args.planet_data))
    THEN /\ result.v[1].d <= 2
         /\ Abs(Times1000(result.v[1]) - RampTimes1000(TemperatureOf(args.planet_data))) <= 5
         /\ Ge(result.v[1], Int_(70)) /\ Le(result.v[1], Int_(100))
    ELSE SphOutsideRamp(TemperatureOf(args.planet_data), result.v[1])

\* 288.16 K scores 88.01, the two decimals of 88.012
C10_Witness ==
  /\ Done("calculate_sph_score")
  /\ Get(args.planet_data, "pl_eqt") = Dec(28816, 2)
  /\ DOMAIN args.weights # {}
  /\ result.v[1] = Dec(8801, 2)

\* C10 as stated: on the ramp the score is 70 + 30 * (1 - |T - 298.15| / 25) itself.
C10_SphExact ==
  Done("calculate_sph_score") =>
    IF ~IsNone(TemperatureOf(args.planet_data)) /\ InRamp(TemperatureOf(args.planet_data))
    THEN Times1000(result.v[1]) = RampTimes1000(TemperatureOf(args.planet_data))
    ELSE SphOutsideRamp(TemperatureOf(args.planet_data), result.v[1])


(***************************************************************************)
(* Direct calls of calculate_esi_score and calculate_phi_score: any planet *)
(* record (the catalogue rows, the empty dict, a record whose three ESI    *)
(* fields are None) with any weight map, partial and empty maps included.  *)
(***************************************************************************)
\* the weight maps over any subset of keys
WeightMaps(keys, values) == UNION {[chosen -> values] : chosen \in SUBSET keys}

EsiWeightValues == {Int_(0), Int_(1), Dec(5, 1), Dec(33, 2), Int_(2)}

\* a quarter, a tenth, a half (four of them overshoot the scale), a weight
\* finer than the sliders' step, and a negative one
PhiWeightValues == {Dec(25, 2), Dec(1, 1), Dec(5, 1), Dec(124, 5), Dec(-1, 1)}

NoEsiFields ==
  [pl_name |-> Str(<<"N", "o", "w", "e", "i", "g", "h", "t">>), pl_rade |-> PyNone, pl_dens |-> PyNone,
   pl_eqt |-> PyNone]

PlanetRecords == Rows \cup {EmptyDict, NoEsiFields}

CallEsi ==
  /\ pc = "idle"
  /\ \E planet_data \in PlanetRecords,
        weights \in WeightMaps({"Size", "Density", "Habitable Zone"}, EsiWeightValues) :
       /\ args' = [planet_data |-> planet_data, weights |-> weights]
       /\ result' = Ret(calculate_esi_score(planet_data, weights))
  /\ op' = "calculate_esi_score"
  /\ pc' = "done"
  /\ UNCHANGED <<caller, calls, cache, now, session>>

CallPhi ==
  /\ pc = "idle"
  /\ \E planet_data \in PlanetRecords,
        phi_weights \in WeightMaps(Range(expected_factors), PhiWeightValues) :
       /\ args' = [planet_data |-> planet_data, phi_weights |-> phi_weights]
       /\ result' = Ret(calculate_phi_score(planet_data, phi_weights))
  /\ op' = "calculate_phi_score"
  /\ pc' = "done"
  /\ UNCHANGED <<caller, calls, cache, now, session>>

SpecIndices == Init /\ [][CallEsi \/ CallPhi \/ Return]_vars

\* the sum of the weights stored under names, a missing one counting as 0
WeightSum(weights, names) ==
  sum([i \in 1..Len(names) |-> GetOr(weights, names[i], Int_(0))])

\* (sum of the four factor weights) / 4 * 400 = 100 * sum, clamped to [0, 100]
PhiFormula(phi_weights) ==
  LET scaled ==
        DecMul(WeightSum(phi_weights,
                         <<"Solid Surface", "Stable Energy", "Life Compounds",
                           "Stable Orbit">>), Int_(100))
  IN  IF Lt(scaled, Int_(0)) THEN Int_(0)
      ELSE IF Gt(scaled, Int_(100)) THEN Int_(100) ELSE scaled

\* C11 as stated: calculate_phi_score returns (sum of the four factor weights)
\* / 4 * 400 clamped to [0, 100], a missing factor counting as 0, whatever the
\* planet data.
C11_PhiExact ==
  Done("calculate_phi_score") =>
    NumEq(result.v[1], PhiFormula(args.phi_weights))

\* C11: calculate_phi_score returns (sum of the four factor weights) / 4 * 400
\* clamped to [0, 100] and rounded to two decimals, a missing factor counting
\* as 0 while the divisor stays 4, whatever the planet data.
C11_PhiRounded ==
  Done("calculate_phi_score") =>
    /\ result.v[1].d <= 2
    /\ NumEq(result.v[1], round(PhiFormula(args.phi_weights), 2))

\* {Solid Surface: 0.1} alone gives 10.0 on a full catalogue row
C11_Witness ==
  /\ Done("calculate_phi_score")
  /\ args.planet_data = Earth
  /\ args.phi_weights = [k \in {"Solid Surface"} |-> Dec(1, 1)]
  /\ NumEq(result.v[1], Int_(10))

\* the empty map gives 0.0 and the fine weight is rounded: 0.00124 gives 0.12
C11_WitnessRounded ==
  /\ Done("calculate_phi_score")
  /\ args.phi_weights = [k \in {"Stable Orbit"} |-> Dec(124, 5)]
  /\ result.v[1] = Dec(12, 2)

\* three times the distance between value and mean * 100, the mean being
\* sum / 3
EsiError3(value, weights) ==
  DecAbs(DecSub(DecMul(value, Int_(3)),
                DecMul(WeightSum(weights, <<"Size", "Density", "Habitable Zone">>),
                       Int_(100))))

\* C12 as stated: calculate_esi_score returns the mean of the Size, Density and
\* Habitable Zone weights times 100, a missing weight counting as 0, whatever
\* the planet record.
C12_EsiExact ==
  Done("calculate_esi_score") =>
    NumEq(EsiError3(result.v[1], args.weights), Int_(0))

\* C12: calculate_esi_score returns the mean of the Size, Density and Habitable
\* Zone weights times 100 rounded to two decimals (the two-decimal number
\* within 0.005 of it), a missing weight counting as 0, whatever the planet
\* record.
C12_EsiRounded ==
  Done("calculate_esi_score") =>
    /\ result.v[1].d <= 2
    /\ Lt(EsiError3(result.v[1], args.weights), Dec(15, 3))

\* a record without pl_rade, pl_dens and pl_eqt, and a partial weight map:
\* (0.5 + 0.33 + 0) / 3 * 100 = 27.666... is returned as 27.67
C12_Witness ==
  /\ Done("calculate_esi_score")
  /\ args.planet_data = NoEsiFields
  /\ args.weights = [k \in {"Size", "Density"} |-> IF k = "Size" THEN Dec(5, 1) ELSE Dec(33, 2)]
  /\ result.v[1] = Dec(2767, 2)


(***************************************************************************)
(* Direct calls of classify_planet: masses on and around every threshold   *)
(* of lines 118-127, temperatures on and around those of lines 130-137,    *)
(* radii of both regimes of lines 111-115, with None, NaN and text.        *)
(***************************************************************************)
CallClassify ==
  /\ pc = "idle"
  /\ \E mass_earth \in {PyNone, PyNaN, Int_(0), Int_(-1), Dec(5, 6), Dec(1, 5), Dec(5, 2),
                        Dec(1, 1), Dec(3, 1), Dec(5, 1), Int_(1), Int_(2), Int_(5),
                        Int_(10), Int_(30), Int_(50), Int_(317), Int_(5000), Int_(6000),
                        Str(TextWord)},
        radius_earth \in {PyNone, PyNaN, Int_(0), Dec(5, 1), Int_(1), Dec(14, 1), Int_(2),
                          Int_(11), Str(TextWord)},
        temp_k \in {PyNone, PyNaN, Int_(-1), Int_(0), Int_(169), Int_(170), Int_(219),
                    Int_(220), Int_(272), Int_(273), Int_(288), Int_(322), Int_(323),
                    Int_(372), Int_(373), Int_(1000), Str(TextWord)} :
       /\ args' = [mass_earth |-> mass_earth, radius_earth |-> radius_earth, temp_k |-> temp_k]
       /\ result' = classify_planet(mass_earth, radius_earth, temp_k)
  /\ op' = "classify_planet"
  /\ pc' = "done"
  /\ UNCHANGED <<caller, calls, cache, now, session>>

SpecClassify == Init /\ [][CallClassify \/ Return]_vars

\* the mass the classes are taken of: the given one, or the one estimated from
\* a positive radius when none is given
MassClassified(mass_earth, radius_earth) ==
  IF pd_isna(mass_earth) /\ IsNum(radius_earth) /\ Gt(radius_earth, Int_(0))
  THEN estimated_mass(radius_earth)
  ELSE mass_earth

\* the mass class the table names for m: first match wins
MassClassNamed(m) ==
  IF ~IsNum(m) THEN <<"U", "n", "k", "n", "o", "w", "n">>
  ELSE IF Le(m, Int_(0)) THEN <<"U", "n", "k", "n", "o", "w", "n">>
  ELSE IF Lt(m, Dec(1, 5)) THEN <<"A", "s", "t", "e", "r", "o", "i", "d", "a", "n">>
  ELSE IF Lt(m, Dec(1, 1)) THEN <<"M", "e", "r", "c", "u", "r", "i", "a", "n">>
  ELSE IF Lt(m, Dec(5, 1)) THEN <<"S", "u", "b", "t", "e", "r", "r", "a", "n">>
  ELSE IF Lt(m, Int_(2)) THEN <<"T", "e", "r", "r", "a", "n">>
  ELSE IF Lt(m, Int_(10)) THEN <<"S", "u", "p", "e", "r", "t", "e", "r", "r", "a", "n">>
  ELSE IF Lt(m, Int_(50)) THEN <<"N", "e", "p", "t", "u", "n", "i", "a", "n">>
  ELSE IF Lt(m, Int_(5000)) THEN <<"J", "o", "v", "i", "a", "n">>
  ELSE <<"U", "n", "k", "n", "o", "w", "n">>

\* the temperature class the table names for T
TempClassNamed(T) ==
  IF ~IsNum(T) THEN <<"U", "n", "k", "n", "o", "w", "n">>
  ELSE IF Lt(T, Int_(0)) THEN <<"U", "n", "k", "n", "o", "w", "n">>
  ELSE IF Lt(T, Int_(170)) THEN <<"H", "y", "p", "o", "p", "s", "y", "c", "h", "r", "o", "p", "l", "a", "n", "e", "t">>
  ELSE IF Lt(T, Int_(220)) THEN <<"P", "s", "y", "c", "h", "r", "o", "p", "l", "a", "n", "e", "t">>
  ELSE IF Lt(T, Int_(273)) THEN <<"M", "e", "s", "o", "p", "l", "a", "n", "e", "t", " ", "(", "T", "e", "m", "p", "e", "r", "a", "t", "e", " ", "1">>
  ELSE IF Lt(T, Int_(323)) THEN <<"M", "e", "s", "o", "p", "l", "a", "n", "e", "t", " ", "(", "T", "e", "m", "p", "e", "r", "a", "t", "e", " ", "2">>
  ELSE IF Lt(T, Int_(373)) THEN <<"T", "h", "e", "r", "m", "o", "p", "l", "a", "n", "e", "t">>
  ELSE <<"H", "y", "p", "e", "r", "t", "h", "e", "r", "m", "o", "p", "l", "a", "n", "e", "t">>

\* text is "{massClass} | {tempClass}", each class label beginning with its name
IsClassification(text, massClass, tempClass) ==
  \E i \in 1..Len(text) :
    /\ SubSeq(text, i, i + 2) = <<" ", "|", " ">>
    /\ StartsWith(SubSeq(text, 1, i - 1), massClass)
    /\ StartsWith(SubSeq(text, i + 3, Len(text)), tempClass)

\* the call returned the classification the two tables name for its inputs
ClassifiedByTable ==
  /\ result.ok
  /\ IsStr(result.v)
  /\ IsClassification(result.v.s,
                      MassClassNamed(MassClassified(args.mass_earth, args.radius_earth)),
                      TempClassNamed(args.temp_k))

\* C13: classify_planet always returns "{massClass} | {tempClass}" with the
\* mass class and the temperature class of the threshold tables, whatever
\* the mass, the radius and the temperature it is given.
C13_AlwaysClassifies == Done("classify_planet") => ClassifiedByTable

\* the part of C13 that holds: when no input the function compares is text,
\* it returns the classification of the tables
C13_ClassifiesNumbers ==
  Done("classify_planet")
    => \/ IsStr(args.mass_earth)
       \/ IsStr(args.temp_k)
       \/ pd_isna(args.mass_earth) /\ IsStr(args.radius_earth)
       \/ ClassifiedByTable

\* a call with a mass on a threshold and a temperature on a threshold
C13_WitnessThresholds ==
  /\ Done("classify_planet")
  /\ args.mass_earth = Int_(2) /\ args.radius_earth = Int_(11) /\ args.temp_k = Int_(273)
  /\ result = Ret(Str(<<"S", "u", "p", "e", "r", "t", "e", "r", "r", "a", "n", " ", "|", " ", "M", "e", "s", "o", "p", "l", "a", "n", "e", "t", " ", "(", "T", "e", "m", "p", "e", "r", "a", "t", "e", " ", "2", " ", "-", " ", "O", "p", "t", "i", "m", "a", "l", " ", "f", "o", "r", " ", "E", "a", "r", "t", "h", " ", "L", "i", "f", "e", ")">>))

\* with a mass given the radius has no influence: not even a text radius
C13_RadiusIgnored ==
  Done("classify_planet") /\ pd_notna(args.mass_earth)
    => result = classify_planet(args.mass_earth, PyNone, args.temp_k)

\* the number a field holds for the scorer: the value, the number a text
\* parses to, or None when there is none
NumberGiven(dict, key) ==
  LET v == Get(dict, key)
  IN  IF IsNum(v) THEN v
      ELSE IF IsStr(v) THEN IF float(v).ok /\ IsNum(float(v).v) THEN float(v).v ELSE PyNone
      ELSE PyNone

\* the classification the scorer reads contains "Terran" (as Python's `in` finds it)
TerranClassified(dict) ==
  /\ "classification" \in DOMAIN dict
  /\ IsStr(dict.classification)
  /\ Contains(dict.classification.s, <<"T", "e", "r", "r", "a", "n">>)

\* C14: for a classification containing "Terran", the Density score is 100
\* exactly when 4.5 <= density <= 6.5, both bounds included: 4.5 and 6.5 score
\* 100, 4.49 and 6.51 (and a missing density) do not.
C14_TerranDensityBounds ==
  (Done("calculate_detailed_habitability_scores") /\ TerranClassified(args.planet_data_dict))
    => (NumEq(ScoreOf(result.v, "Density"), Int_(100))
          <=> /\ IsNum(NumberGiven(args.planet_data_dict, "pl_dens"))
              /\ Le(Dec(45, 1), NumberGiven(args.planet_data_dict, "pl_dens"))
              /\ Le(NumberGiven(args.planet_data_dict, "pl_dens"), Dec(65, 1)))

\* a Terran of density exactly 6.5 scored 100
C14_Witness ==
  /\ Done("calculate_detailed_habitability_scores")
  /\ TerranClassified(args.planet_data_dict)
  /\ Get(args.planet_data_dict, "pl_dens") = Dec(65, 1)
  /\ NumEq(ScoreOf(result.v, "Density"), Int_(100))

\* a Terran of density 4.49 scored 90, one of density 4.5 would score 100
C14_WitnessBelow ==
  /\ Done("calculate_detailed_habitability_scores")
  /\ TerranClassified(args.planet_data_dict)
  /\ Get(args.planet_data_dict, "pl_dens") = Dec(449, 2)
  /\ NumEq(ScoreOf(result.v, "Density"), Int_(90))

\* the Orbital Eccentricity score the bands name for e
EccentricityBand(e) ==
  IF Le(e, Dec(1, 1)) THEN 95
  ELSE IF Le(e, Dec(3, 1)) THEN 70
  ELSE IF Le(e, Dec(5, 1)) THEN 40
  ELSE 10

\* C15: the Orbital Eccentricity score is 95 for e <= 0.1, 70 for
\* 0.1 < e <= 0.3, 40 for 0.3 < e <= 0.5 and 10 above 0.5, and so never
\* higher for a higher eccentricity than for a lower one.
C15_EccentricityBands ==
  (/\ Done("calculate_detailed_habitability_scores")
   /\ IsNum(NumberGiven(args.planet_data_dict, "pl_orbeccen")))
    => /\ NumEq(ScoreOf(result.v, "Orbital Eccentricity"),
                Int_(EccentricityBand(NumberGiven(args.planet_data_dict, "pl_orbeccen"))))
       /\ \A lower \in {Int_(0), Dec(5, 2), Dec(1, 1), Dec(11, 2), Dec(3, 1), Dec(31, 2),
                        Dec(5, 1), Dec(51, 2), Dec(6, 1), Int_(1)} :
            Le(lower, NumberGiven(args.planet_data_dict, "pl_orbeccen"))
              => Ge(Int_(ecc_score(lower)), ScoreOf(result.v, "Orbital Eccentricity"))

\* an eccentricity on the edge 0.3 scored 70, and one of 0.31 scores 40
C15_Witness ==
  /\ Done("calculate_detailed_habitability_scores")
  /\ Get(args.planet_data_dict, "pl_orbeccen") = Dec(3, 1)
  /\ NumEq(ScoreOf(result.v, "Orbital Eccentricity"), Int_(70))
  /\ ecc_score(Dec(31, 2)) = 40

\* the call is calculate_sephi(1, 1, 365.25, 1, 1, 5778, 4.5, 5.51)
EarthIdentical ==
  /\ Done("calculate_sephi")
  /\ args.core = <<Int_(1), Int_(1), Dec(36525, 2), Int_(1), Int_(1), Int_(5778), Dec(45, 1)>>
  /\ args.planet_density_val = Dec(551, 2)

\* C16: for Earth-identical inputs (mass 1, radius 1, period 365.25 d, stellar
\* mass 1, stellar radius 1, 5778 K, 4.5 Gyr, density 5.51) calculate_sephi
\* returns a SEPHI between 70 and 100.
C16_EarthSephiHigh ==
  EarthIdentical
    => /\ result.ok
       /\ IsNum(result.v[1])
       /\ Le(Int_(70), result.v[1]) /\ Le(result.v[1], Int_(100))

\* the Earth-identical call returned SEPHI 100 with every level at 100
C16_Witness ==
  /\ EarthIdentical
  /\ result.ok
  /\ \A j \in 1..5 : NumEq(result.v[j], Int_(100))

(***************************************************************************)
(* A caller that holds a parameter record and a weight configuration and   *)
(* passes them, by reference, to the calculators: several calls on the     *)
(* same objects, in any order, as routes.py makes them for one planet.     *)
(***************************************************************************)
MaxLoads == 2

MaxCalls == 3

\* the dict process_planet_data writes its fields to when combined_data is the
\* caller's object: its own (lines 641-649)
planet_data_dict_aliased(combined_data) == "caller"

\* lines 641-649: planet_data_dict is combined_data.to_dict(),
\* combined_data.copy() or {}, each a new dict
planet_data_dict_object(combined_data) == "own"

\* planet_data_dict as process_planet_data leaves it: formatted (lines
\* 750-770) when it returns, and with the name of line 664, its first write,
\* when classify_planet raised
planet_data_dict_written(planet_name, combined_data, outcome) ==
  IF outcome.ok THEN outcome.v.planet_data_dict ELSE named(planet_name, combined_data)

\* a dict argument after a calculator that removes from it the fields it read
dict_after_pop(planet_data) ==
  [k \in DOMAIN planet_data \ {"pl_eqt", "pl_dens"} |-> planet_data[k]]

\* a dict argument after calculate_esi_score, calculate_sph_score,
\* calculate_phi_score or calculate_detailed_habitability_scores: they only
\* call .get on it
dict_after_reads(planet_data) == planet_data

\* the caller obtains a record and the weights of the session
Load ==
  /\ pc = "idle"
  /\ caller.loaded < MaxLoads
  /\ \E row \in Rows \cup {Update(Earth, [pl_masse |-> TextWord])} :
       caller' = [loaded |-> caller.loaded + 1, combined_data |-> row,
                  weights_config |-> [habitability |-> [Size |-> Dec(5, 1), Density |-> Dec(33, 2)],
                                      phi |-> [k \in Range(expected_factors) |-> Dec(25, 2)]]]
  /\ UNCHANGED <<pc, op, args, result, calls, cache, now, session>>

\* one of the calculators other than process_planet_data, on the caller's objects
CallCalculator ==
  /\ pc = "idle"
  /\ caller.loaded > 0
  /\ Len(calls) < MaxCalls
  /\ \E calculator \in {"classify_planet", "calculate_sephi", "calculate_esi_score",
                        "calculate_sph_score", "calculate_phi_score",
                        "calculate_detailed_habitability_scores"},
        planet_data \in {caller.combined_data}, weights_config \in {caller.weights_config} :
       /\ op' = calculator
       /\ args' = [combined_data |-> planet_data, weights_config |-> weights_config]
       /\ result' =
            CASE calculator = "classify_planet" ->
                   classify_planet(Get(planet_data, "pl_masse"), Get(planet_data, "pl_rade"),
                                   Get(planet_data, "pl_eqt"))
              [] calculator = "calculate_sephi" ->
                   calculate_sephi(Get(planet_data, "pl_masse"), Get(planet_data, "pl_rade"),
                                   Get(planet_data, "pl_orbper"), Get(planet_data, "st_mass"),
                                   Get(planet_data, "st_rad"), Get(planet_data, "st_teff"),
                                   Get(planet_data, "st_age"), Get(planet_data, "pl_dens"))
              [] calculator = "calculate_esi_score" ->
                   Ret(calculate_esi_score(planet_data, weights_config.habitability))
              [] calculator = "calculate_sph_score" ->
                   Ret(calculate_sph_score(planet_data, weights_config.habitability))
              [] calculator = "calculate_phi_score" ->
                   Ret(calculate_phi_score(planet_data, weights_config.phi))
              [] OTHER ->
                   Ret(calculate_detailed_habitability_scores(
                         planet_data, hz_data_tuple_of(planet_data), weights_config))
       /\ caller' = IF calculator \in {"classify_planet", "calculate_sephi"}
                    THEN caller
                    ELSE [caller EXCEPT !.combined_data = dict_after_reads(planet_data)]
       /\ calls' = Append(calls, [op |-> calculator, loaded |-> caller.loaded,
                                  args |-> args', result |-> result'])
  /\ pc' = "done"
  /\ UNCHANGED <<cache, now, session>>

\* process_planet_data on the caller's objects
CallProcessOn ==
  /\ pc = "idle"
  /\ caller.loaded > 0
  /\ Len(calls) < MaxCalls
  /\ \E planet_name \in {Str(<<"P", "l", "a", "n", "e", "t">>)},
        combined_data \in {caller.combined_data}, weights_config \in {caller.weights_config} :
       /\ args' = [planet_name |-> planet_name, combined_data |-> combined_data,
                   weights_config |-> weights_config]
       /\ result' = process_planet_data(planet_name, combined_data, weights_config)
       /\ caller' = IF planet_data_dict_object(combined_data) = "caller"
                    THEN [caller EXCEPT !.combined_data =
                            planet_data_dict_written(planet_name, combined_data, result')]
                    ELSE caller
       /\ calls' = Append(calls, [op |-> "process_planet_data", loaded |-> caller.loaded,
                                  args |-> args', result |-> result'])
  /\ op' = "process_planet_data"
  /\ pc' = "done"
  /\ UNCHANGED <<cache, now, session>>

SpecCaller == Init /\ [][Load \/ CallCalculator \/ CallProcessOn \/ Return]_vars

\* C18: when process_planet_data has run on the caller's parameter record and
\* weight configuration, returning or raising, both are what the caller passed;
\* the fields it adds are in the planet_data_dict of the bundle it returns,
\* which is another dict than the caller's record
C18_CallerUnchanged ==
  (Done("process_planet_data") /\ caller.loaded > 0) =>
    /\ caller.combined_data = args.combined_data
    /\ caller.weights_config = args.weights_config
    /\ result.ok => {"classification", "pl_name"} \subseteq DOMAIN result.v.planet_data_dict

\* process_planet_data returned a bundle whose planet_data_dict carries a
\* classification, and the caller's record, which had none, still has none
C18_Witness ==
  /\ Done("process_planet_data")
  /\ caller.loaded > 0
  /\ result.ok
  /\ "classification" \in DOMAIN result.v.planet_data_dict
  /\ "classification" \notin DOMAIN caller.combined_data
  /\ "pl_name" \notin DOMAIN caller.combined_data
  /\ result.v.planet_data_dict # caller.combined_data

\* two calls of the history have identical inputs: the same calculator, on
\* the same objects of the caller or on equal arguments
SameInputs(i, j) ==
  /\ calls[i].op = calls[j].op
  /\ calls[i].loaded = calls[j].loaded \/ calls[i].args = calls[j].args

normalize_name(name) ==
  LET upper == <<"A", "B", "C", "D", "E", "F", "G", "H", "I", "J", "K", "L", "M",
                 "N", "O", "P", "Q", "R", "S", "T", "U", "V", "W", "X", "Y", "Z">>
      lower == <<"a", "b", "c", "d", "e", "f", "g", "h", "i", "j", "k", "l", "m",
                 "n", "o", "p", "q", "r", "s", "t", "u", "v", "w", "x", "y", "z">>
      lowered(c) == IF c \in Range(upper)
                    THEN lower[CHOOSE i \in 1..26 : upper[i] = c] ELSE c
      isalnum(c) == c \in Range(lower) \/ IsDigit(c)
  IN  IF ~IsStr(name) \/ name.s = <<>> THEN Str(<<>>)
      ELSE Str(SelectSeq([i \in DOMAIN name.s |-> lowered(name.s[i])], isalnum))

\* pd.notna(x) and str(x).strip() != "" (lines 349, 354, 400)
filled(x) == pd_notna(x) /\ ~(IsStr(x) /\ Strip(x.s) = <<>>)

\* str(x) of a name cell: text, or "nan" for an empty cell
str_of_cell(x) == IF IsStr(x) THEN x ELSE Str(<<"n", "a", "n">>)

\* df_copy[df_copy[name_column + "_NORM"] == planet_name_for_match] (lines
\* 337-338, 389-390): the rows whose normalized name matches, in order
matching_rows(df, name_column, planet_name_for_match) ==
  LET matches(row) == normalize_name(str_of_cell(row[name_column])) = planet_name_for_match
  IN  SelectSeq(df, matches)

\* lines 343-352: HWC column, standard key, converter
hwc_to_standard_map ==
  <<[key |-> "P_MASS", standard_key |-> "pl_masse", converter |-> "float"],
    [key |-> "P_RADIUS", standard_key |-> "pl_rade", converter |-> "float"],
    [key |-> "P_PERIOD", standard_key |-> "pl_orbper", converter |-> "float"],
    [key |-> "P_SEMI_MAJOR_AXIS", standard_key |-> "pl_orbsmax", converter |-> "float"],
    [key |-> "P_ECCENTRICITY", standard_key |-> "pl_orbeccen", converter |-> "float"],
    [key |-> "P_SURFACE_TEMP_C", standard_key |-> "pl_eqt", converter |-> "kelvin"],
    [key |-> "P_ESI", standard_key |-> "pl_esi_hwc", converter |-> "percent"],
    [key |-> "S_AGE", standard_key |-> "st_age", converter |-> "float"]>>

\* lines 394-398
hz_mapping ==
  <<[key |-> "OHZIN", standard_key |-> "hz_ohzin", converter |-> "float"],
    [key |-> "CHZIN", standard_key |-> "hz_chzin", converter |-> "float"],
    [key |-> "CHZOUT", standard_key |-> "hz_chzout", converter |-> "float"],
    [key |-> "OHZOUT", standard_key |-> "hz_ohzout", converter |-> "float"],
    [key |-> "TEQA", standard_key |-> "hz_teqa", converter |-> "float"]>>

\* converter(x): float, or the lambdas of lines 349 and 350
converter_value(converter, x) ==
  LET scaled(number) ==
        IF ~number.ok \/ IsNaN(number.v) THEN number
        ELSE IF converter = "kelvin" THEN Ret(DecAdd(number.v, Dec(27315, 2)))
        ELSE Ret(DecMul(number.v, Int_(100)))
  IN  IF converter = "float" THEN float(x)
      ELSE IF filled(x) THEN scaled(float(x)) ELSE Ret(PyNone)

\* a merge in which a catalog value replaces the one the record has
fillable_always(combined_data, standard_key) == TRUE

\* whether the standard key may be filled from a catalog: always for the ESI
\* of HWC (line 357), else when the merged record has no value for it (lines
\* 365, 401)
fillable(combined_data, standard_key) ==
  \/ standard_key = "pl_esi_hwc"
  \/ pd_isna(Get(combined_data, standard_key))
  \/ ~filled(Get(combined_data, standard_key))

\* one pass of the loops of lines 353-372 and 399-408, from entry i on
RECURSIVE filled_from(_, _, _, _)
filled_from(combined_data, row, mapping, i) ==
  IF i > Len(mapping) THEN combined_data
  ELSE IF /\ mapping[i].key \in DOMAIN row
          /\ filled(row[mapping[i].key])
          /\ fillable(combined_data, mapping[i].standard_key)
          /\ converter_value(mapping[i].converter, row[mapping[i].key]).ok
          /\ pd_notna(converter_value(mapping[i].converter, row[mapping[i].key]).v)
       THEN filled_from(Update(combined_data,
                               [k \in {mapping[i].standard_key} |->
                                  converter_value(mapping[i].converter, row[mapping[i].key]).v]),
                        row, mapping, i + 1)
       ELSE filled_from(combined_data, row, mapping, i + 1)

\* lines 373-378: the category of P_HABITABLE; a cell that float() rejects
\* ends the HWC block in the handler of line 381, after the loop
with_phi_category(combined_data, hwc_row) ==
  LET category(phi_raw) == IF NumEq(phi_raw, Int_(0)) THEN Int_(0)
                           ELSE IF NumEq(phi_raw, Int_(1)) THEN Dec(5, 1)
                           ELSE Int_(1)
  IN  IF "P_HABITABLE" \in DOMAIN hwc_row /\ pd_notna(hwc_row["P_HABITABLE"])
         /\ float(hwc_row["P_HABITABLE"]).ok
      THEN Update(combined_data,
                  [hwc_phi_category |-> category(float(hwc_row["P_HABITABLE"]).v)])
      ELSE combined_data

\* a value that is true in a condition (lines 325, 326, 333): None, 0 and the
\* empty str are false, NaN is true
truthy(v) ==
  IF IsNone(v) THEN FALSE
  ELSE IF IsStr(v) THEN v.s # <<>>
  ELSE IsNaN(v) \/ v.m # 0

\* lines 332-412 for one catalog: the first row that matches the name, if the
\* DataFrame is given, is not empty and has the name column
catalog_row(df, name_column, planet_name_for_match) ==
  IF ~IsNone(df) /\ df.rows # <<>> /\ truthy(planet_name_for_match)
     /\ name_column \in DOMAIN df.rows[1]
     /\ matching_rows(df.rows, name_column, planet_name_for_match) # <<>>
  THEN matching_rows(df.rows, name_column, planet_name_for_match)[1]
  ELSE PyNone

\* lines 309-330: the dict the merge starts from, with pl_name set
merge_start(api_data, planet_name_for_match, original_planet_name_query) ==
  LET combined_data == IF api_data.t \in {"dict", "Series"} THEN api_data.d ELSE <<>>
      name_to_set == IF truthy(original_planet_name_query)
                     THEN original_planet_name_query ELSE planet_name_for_match
  IN  IF pd_isna(Get(combined_data, "pl_name")) /\ truthy(name_to_set)
      THEN Update(combined_data, [pl_name |-> name_to_set])
      ELSE combined_data

\* lines 332-382 on the dict so far
merge_hwc(combined_data, hwc_row) ==
  IF hwc_row = PyNone THEN combined_data
  ELSE with_phi_category(filled_from(combined_data, hwc_row, hwc_to_standard_map, 1), hwc_row)

\* lines 384-412 on the dict so far
merge_hz(combined_data, hz_row) ==
  IF hz_row = PyNone THEN combined_data
  ELSE filled_from(combined_data, hz_row, hz_mapping, 1)

\* merge_data_sources(api_data, hwc_df, hz_gallery_df, planet_name_for_match,
\* original_planet_name_query)
merge_data_sources(api_data, hwc_df, hz_gallery_df, planet_name_for_match, original_planet_name_query) ==
  merge_hz(merge_hwc(merge_start(api_data, planet_name_for_match, original_planet_name_query),
                     catalog_row(hwc_df, "P_NAME", planet_name_for_match)),
           catalog_row(hz_gallery_df, "PLANET", planet_name_for_match))

\* pd.DataFrame(rows)
DataFrame(rows) == [t |-> "DataFrame", rows |-> rows]

\* the calls of routes.py and of the tests: a planet known to the API or not,
\* with values present, empty, blank or text, and catalogs that have the
\* planet, another planet, or nothing
CallMerge ==
  /\ pc = "idle"
  /\ \E api \in {"none", "list", "dict", "named dict"},
        pl_masse \in {KeyAbsent, PyNone, PyNaN, TextBlank, TextWord, Int_(0), Int_(10)},
        temperatures \in {<<KeyAbsent, Int_(15)>>, <<Int_(262), Int_(15)>>, <<KeyAbsent, PyNaN>>},
        zones \in {<<KeyAbsent, Dec(5, 1)>>, <<Dec(4, 1), Dec(5, 1)>>,
                   <<Str(<<>>), Dec(5, 1)>>, <<PyNaN, PyNaN>>},
        P_NAME \in {Str(<<"K", "e", "p", "l", "e", "r", "-", "2", "2", " ", "b">>), Str(<<"K", "E", "P", "L", "E", "R", " ", "2", "2", "B">>), Str(<<"K", "e", "p", "l", "e", "r", "-", "2", "2", " ", "c">>)},
        P_MASS \in {PyNaN, TextBlank, TextWord, Int_(12), TextNumber},
        P_HABITABLE \in {PyNaN, Int_(1), TextWord},
        frames \in {"none", "empty", "no name column", "one row", "two rows"},
        names \in {<<Str(<<"k", "e", "p", "l", "e", "r", "2", "2", "b">>), PyNone>>,
                   <<Str(<<"k", "e", "p", "l", "e", "r", "2", "2", "b">>), Str(<<"K", "e", "p", "l", "e", "r", "-", "2", "2", " ", "b">>)>>,
                   <<Str(<<>>), Str(<<"K", "e", "p", "l", "e", "r", "-", "2", "2", " ", "b">>)>>} :
       LET present(given) == [k \in {key \in DOMAIN given : given[key] # KeyAbsent} |-> given[k]]
           api_data == IF api = "none" THEN PyNone
                       ELSE IF api = "list" THEN [t |-> "list"]
                       ELSE [t |-> "dict",
                             d |-> present([pl_name |-> IF api = "dict" THEN KeyAbsent ELSE P_NAME,
                                            pl_masse |-> pl_masse, pl_eqt |-> temperatures[1],
                                            hz_ohzin |-> zones[1]])]
           hwc_row == [P_NAME |-> P_NAME, P_MASS |-> P_MASS, P_ESI |-> Dec(85, 2),
                       P_SURFACE_TEMP_C |-> temperatures[2], P_HABITABLE |-> P_HABITABLE]
           other_hwc == [k \in DOMAIN hwc_row |-> IF k = "P_NAME" THEN Str(<<"K", "e", "p", "l", "e", "r", "-", "2", "2", " ", "c">>) ELSE Int_(99)]
           hz_row == [PLANET |-> P_NAME, OHZIN |-> zones[2], TEQA |-> Int_(250)]
           other_hz == [PLANET |-> Str(<<"K", "e", "p", "l", "e", "r", "-", "2", "2", " ", "c">>), OHZIN |-> Int_(99), TEQA |-> Int_(99)]
           frame(row, other) ==
             CASE frames = "none" -> PyNone
               [] frames = "empty" -> DataFrame(<<>>)
               [] frames = "no name column" -> DataFrame(<<[X |-> Int_(1)]>>)
               [] frames = "one row" -> DataFrame(<<row>>)
               [] OTHER -> DataFrame(<<other, row>>)
       IN  /\ args' = [api_data |-> api_data, hwc_df |-> frame(hwc_row, other_hwc),
                       hz_gallery_df |-> frame(hz_row, other_hz),
                       planet_name_for_match |-> names[1],
                       original_planet_name_query |-> names[2]]
           /\ result' = Ret(merge_data_sources(api_data, args'.hwc_df, args'.hz_gallery_df,
                                               names[1], names[2]))
  /\ op' = "merge_data_sources"
  /\ pc' = "done"
  /\ UNCHANGED <<caller, calls, cache, now, session>>

SpecMerge == Init /\ [][CallMerge \/ Return]_vars

\* the standard fields of the parameter record that the catalogs can supply
StandardFields ==
  {"pl_masse", "pl_rade", "pl_orbper", "pl_orbsmax", "pl_orbeccen", "pl_eqt", "st_age",
   "hz_ohzin", "hz_chzin", "hz_chzout", "hz_ohzout", "hz_teqa"}

\* the record the API returned, empty when it returned none
ApiRecord == IF args.api_data.t = "dict" THEN args.api_data.d ELSE <<>>

\* the value is the converted cell of a row of the catalog for the planet
FromCatalog(df, name_column, mapping, field, value) ==
  /\ ~IsNone(df)
  /\ \E i \in DOMAIN df.rows : \E j \in DOMAIN mapping :
       /\ mapping[j].standard_key = field
       /\ {name_column, mapping[j].key} \subseteq DOMAIN df.rows[i]
       /\ normalize_name(str_of_cell(df.rows[i][name_column])) = args.planet_name_for_match
       /\ converter_value(mapping[j].converter, df.rows[i][mapping[j].key]) = Ret(value)

\* C19: in the record merge_data_sources returns, a standard field that the
\* API gave a value (not None or NaN, not blank) has that value, whatever the
\* catalogs hold; a standard field whose value is not the API's was missing
\* from the API and has the value of the planet's row in HWC, or for an hz_*
\* field, which HWC does not supply, in HZGallery
C19_ApiFirst ==
  Done("merge_data_sources") =>
    \A field \in StandardFields :
      /\ filled(Get(ApiRecord, field)) =>
           field \in DOMAIN result.v /\ result.v[field] = ApiRecord[field]
      /\ (field \in DOMAIN result.v
          /\ (field \notin DOMAIN ApiRecord \/ result.v[field] # ApiRecord[field])) =>
           /\ ~filled(Get(ApiRecord, field))
           /\ IF field \in {hz_mapping[j].standard_key : j \in DOMAIN hz_mapping}
              THEN FromCatalog(args.hz_gallery_df, "PLANET", hz_mapping, field, result.v[field])
              ELSE FromCatalog(args.hwc_df, "P_NAME", hwc_to_standard_map, field, result.v[field])

\* the API gave a mass of 10 and HWC one of 12: 10 is kept; it gave no
\* temperature: the 15 C of HWC are used, as 288.15 K; its hz_ohzin is blank:
\* the 0.5 of HZGallery is used
C19_Witness ==
  /\ Done("merge_data_sources")
  /\ Get(ApiRecord, "pl_masse") = Int_(10)
  /\ FromCatalog(args.hwc_df, "P_NAME", hwc_to_standard_map, "pl_masse", Int_(12))
  /\ result.v.pl_masse = Int_(10)
  /\ "pl_eqt" \notin DOMAIN ApiRecord
  /\ Get(result.v, "pl_eqt") = Dec(28815, 2)
  /\ Get(ApiRecord, "hz_ohzin") = Str(<<>>)
  /\ Get(result.v, "hz_ohzin") = Dec(5, 1)

(***************************************************************************)
(* data.py: the cache.  `cache` is the cache directory: the files by slug, *)
(* a file being the JSON value it holds ([json |-> TRUE, v |-> value]) or  *)
(* text that is no JSON ([json |-> FALSE]); `now` is the reading of        *)
(* datetime.now(), in hours; `calls` holds, by slug, the call that wrote   *)
(* the file last.  A timestamp is [t |-> "str", time |-> the hour] when it *)
(* is the isoformat() of a datetime.                                       *)
(***************************************************************************)
MaxHours == 25

\* line 16
CACHE_EXPIRATION_HOURS == 24

\* a dict, and a pandas Series, of the record d
Dict(d) == [t |-> "dict", d |-> d]

Series(d) == [t |-> "Series", d |-> d]

\* convert_numpy_types(data) for a dict of scalars (lines 83-84, 95-99): NaN
\* becomes None
convert_numpy_types(d) == [k \in DOMAIN d |-> IF pd_isna(d[k]) THEN PyNone ELSE d[k]]

\* the file after lines 131-132: the JSON object, or the text written before
\* json.dump met a value it cannot encode, which is no JSON
dumped(cache_content) ==
  IF \A k \in DOMAIN cache_content.data_dict.d :
       cache_content.data_dict.d[k].t \in {"float", "str", "NoneType"}
  THEN [json |-> TRUE, v |-> Dict(cache_content)]
  ELSE [json |-> FALSE]

\* the cache directory after write_to_cache(planet_name_slug, data_series) at
\* the hour clock: unchanged for data that is neither Series nor dict (lines
\* 123-125)
write_to_cache(files, planet_name_slug, data_series, clock) ==
  IF data_series.t \in {"Series", "dict"}
  THEN Update(files, [slug \in {planet_name_slug} |->
                        dumped([timestamp |-> [t |-> "str", time |-> clock],
                                data_dict |-> Dict(convert_numpy_types(data_series.d))])])
  ELSE files

\* pd.Series(data) for a dict read from JSON: None becomes NaN when every
\* other value is a number
series_of(data) ==
  Series(IF \A k \in DOMAIN data : IsNone(data[k]) \/ data[k].t = "float"
         THEN [k \in DOMAIN data |-> IF IsNone(data[k]) THEN PyNaN ELSE data[k]]
         ELSE data)

\* an expiration that keeps the entry of exactly 24 hours
fresh_inclusive(clock, timestamp) == clock - timestamp <= CACHE_EXPIRATION_HOURS

\* line 163: the entry is younger than the expiration
fresh(clock, timestamp) == clock - timestamp < CACHE_EXPIRATION_HOURS

\* lines 160-174 on the dict read from the file
read_entry(cached_data, clock) ==
  LET timestamp_str == Get(cached_data, "timestamp")
      cached_data_dict == Get(cached_data, "data_dict")
  IN  IF IsNone(timestamp_str) \/ timestamp_str = Str(<<>>) THEN PyNone
      ELSE IF "time" \notin DOMAIN timestamp_str THEN PyNone
      ELSE IF ~fresh(clock, timestamp_str.time) THEN PyNone
      ELSE IF IsNone(cached_data_dict) THEN PyNone
      ELSE series_of(cached_data_dict.d)

\* read_from_cache(planet_name_slug) at the hour clock: None for no file
\* (line 156), for text that is no JSON (line 175) and for JSON that is no
\* object (line 177)
read_from_cache(files, planet_name_slug, clock) ==
  IF planet_name_slug \notin DOMAIN files THEN PyNone
  ELSE IF ~files[planet_name_slug].json THEN PyNone
  ELSE IF files[planet_name_slug].v.t # "dict" THEN PyNone
  ELSE read_entry(files[planet_name_slug].v.d, clock)

\* the planets whose entries the model follows
Slugs == {"kepler22b", "earth"}

\* write_to_cache on a record of the API, as fetch_exoplanet_data_api calls
\* it (line 225), on the Series and the dict of the tests, and on what it
\* refuses or cannot encode
WriteToCache ==
  /\ pc = "idle"
  /\ \E planet_name_slug \in Slugs,
        data_series \in {Series([mass |-> Int_(1), radius |-> Int_(1)]),
                         Dict([mass |-> Int_(1), radius |-> PyNaN]),
                         Series([pl_name |-> Str(<<"K", "e", "p", "l", "e", "r", "-", "2", "2", " ", "b">>), pl_rade |-> Dec(24, 1),
                                 pl_masse |-> PyNaN]),
                         Dict([pl_name |-> Str(<<"K", "e", "p", "l", "e", "r", "-", "2", "2", " ", "b">>), tags |-> [t |-> "set"]]),
                         [t |-> "list"]} :
       /\ args' = [planet_name_slug |-> planet_name_slug, data_series |-> data_series]
       /\ cache' = write_to_cache(cache, planet_name_slug, data_series, now)
       /\ calls' = Update(calls, [slug \in {planet_name_slug} |->
                                    [op |-> "write_to_cache", data_series |-> data_series,
                                     at |-> now]])
  /\ op' = "write_to_cache"
  /\ result' = Ret(PyNone)
  /\ pc' = "done"
  /\ UNCHANGED <<caller, now, session>>

\* a file put into the cache directory as the tests do (test_data.py, lines
\* 74-101): expired, no JSON, without timestamp, and the like
PutFile ==
  /\ pc = "idle"
  /\ \E planet_name_slug \in Slugs,
        file \in {[json |-> FALSE],
                  [json |-> TRUE, v |-> [t |-> "list"]],
                  [json |-> TRUE,
                   v |-> Dict([timestamp |-> [t |-> "str", time |-> now - 25],
                               data_dict |-> Dict([mass |-> Int_(1)])])],
                  [json |-> TRUE, v |-> Dict([data_dict |-> Dict([mass |-> Int_(1)])])],
                  [json |-> TRUE,
                   v |-> Dict([timestamp |-> Str(<<>>), data_dict |-> Dict([mass |-> Int_(1)])])],
                  [json |-> TRUE,
                   v |-> Dict([timestamp |-> TextWord, data_dict |-> Dict([mass |-> Int_(1)])])],
                  [json |-> TRUE, v |-> Dict([timestamp |-> [t |-> "str", time |-> now]])],
                  [json |-> TRUE,
                   v |-> Dict([timestamp |-> [t |-> "str", time |-> now],
                               data_dict |-> PyNone])]} :
       /\ args' = [planet_name_slug |-> planet_name_slug, file |-> file]
       /\ cache' = Update(cache, [slug \in {planet_name_slug} |-> file])
       /\ calls' = Update(calls, [slug \in {planet_name_slug} |-> [op |-> "open"]])
  /\ op' = "open"
  /\ result' = Ret(PyNone)
  /\ pc' = "done"
  /\ UNCHANGED <<caller, now, session>>

ReadFromCache ==
  /\ pc = "idle"
  /\ \E planet_name_slug \in Slugs :
       /\ args' = [planet_name_slug |-> planet_name_slug]
       /\ result' = Ret(read_from_cache(cache, planet_name_slug, now))
  /\ op' = "read_from_cache"
  /\ pc' = "done"
  /\ UNCHANGED <<caller, calls, cache, now, session>>

\* time passes, up to a later reading of the clock: one hour after the
\* start, the expiration after the start, or MaxHours after it
Tick ==
  /\ pc = "idle"
  /\ \E later \in {1, CACHE_EXPIRATION_HOURS, MaxHours} :
       /\ later > now
       /\ now' = later
  /\ UNCHANGED <<pc, op, args, result, caller, calls, cache, session>>

SpecCache == Init /\ [][WriteToCache \/ PutFile \/ ReadFromCache \/ Tick \/ Return]_vars

\* read_from_cache has returned for a slug whose file write_to_cache wrote last
ReadAfterWrite ==
  /\ Done("read_from_cache")
  /\ args.planet_name_slug \in DOMAIN calls
  /\ calls[args.planet_name_slug].op = "write_to_cache"

\* the data of the last write_to_cache for the slug read, and the hours since
Written == calls[args.planet_name_slug].data_series

Elapsed == now - calls[args.planet_name_slug].at

\* the file of the slug read has no timestamp, no data_dict, or is no JSON
EntryIncomplete ==
  /\ args.planet_name_slug \in DOMAIN cache
  /\ \/ ~cache[args.planet_name_slug].json
     \/ /\ cache[args.planet_name_slug].v.t = "dict"
        /\ ~({"timestamp", "data_dict"} \subseteq DOMAIN cache[args.planet_name_slug].v.d)

recased(s, to_upper) ==
  LET upper == <<"A", "B", "C", "D", "E", "F", "G", "H", "I", "J", "K", "L", "M",
                 "N", "O", "P", "Q", "R", "S", "T", "U", "V", "W", "X", "Y", "Z">>
      lower == <<"a", "b", "c", "d", "e", "f", "g", "h", "i", "j", "k", "l", "m",
                 "n", "o", "p", "q", "r", "s", "t", "u", "v", "w", "x", "y", "z">>
      from == IF to_upper THEN lower ELSE upper
      to == IF to_upper THEN upper ELSE lower
  IN  [i \in DOMAIN s |-> IF s[i] \in Range(from)
                          THEN to[CHOOSE j \in 1..26 : from[j] = s[i]] ELSE s[i]]

\* s.split(sep) for a separator of one character
RECURSIVE Split(_, _)
Split(s, sep) ==
  IF \A i \in DOMAIN s : s[i] # sep THEN <<s>>
  ELSE <<SubSeq(s, 1, (CHOOSE i \in DOMAIN s : s[i] = sep /\ \A j \in 1..(i - 1) : s[j] # sep) - 1)>>
       \o Split(SubSeq(s, (CHOOSE i \in DOMAIN s : s[i] = sep /\ \A j \in 1..(i - 1) : s[j] # sep) + 1,
                       Len(s)), sep)

\* the str of a sequence of characters, as a key
RECURSIVE Key(_)
Key(s) == IF s = <<>> THEN "" ELSE Head(s) \o Key(Tail(s))

\* the table pd.read_csv makes of the lines of a text, blank lines skipped:
\* the first line names the columns, a column is numeric when all its cells
\* are numbers or empty, an empty cell is NaN; no line: EmptyDataError; a
\* row with more cells than columns: ParserError
table_of(lines) ==
  LET header == Split(lines[1], ",")
      cells(i) == Split(lines[i + 1], ",")
      cell(i, j) == IF j <= Len(cells(i)) THEN cells(i)[j] ELSE <<>>
      numeric(j) == \A i \in 1..(Len(lines) - 1) :
                      Strip(cell(i, j)) = <<>> \/ ParseFloat(cell(i, j)).ok
      value(i, j) == IF Strip(cell(i, j)) = <<>> THEN PyNaN
                     ELSE IF numeric(j) THEN ParseFloat(cell(i, j)).v
                     ELSE Str(cell(i, j))
  IN  IF \E i \in 1..(Len(lines) - 1) : Len(cells(i)) > Len(header)
      THEN Raise("ParserError")
      ELSE Ret(DataFrame([i \in 1..(Len(lines) - 1) |->
                            [k \in {Key(header[j]) : j \in DOMAIN header} |->
                               value(i, CHOOSE j \in DOMAIN header : Key(header[j]) = k)]]))

\* pd.read_csv(StringIO(csv_data)), line 218
read_csv(csv_data) ==
  LET nonblank(line) == Strip(line) # <<>>
  IN  IF SelectSeq(Split(csv_data, "\n"), nonblank) = <<>> THEN Raise("EmptyDataError")
      ELSE table_of(SelectSeq(Split(csv_data, "\n"), nonblank))

\* line 214: the body is empty, blank, an HTML page or an error message
body_rejected(csv_data) ==
  \/ csv_data = <<>>
  \/ Strip(csv_data) = <<>>
  \/ Contains(recased(csv_data, FALSE), <<"<", "!", "D", "O", "C", "T", "Y", "P", "E", " ", "h", "t", "m", "l", ">">>)
  \/ Contains(recased(SubSeq(csv_data, 1, IF Len(csv_data) > 200 THEN 200 ELSE Len(csv_data)), TRUE), <<"E", "R", "R", "O", "R">>)

\* lines 218-226 on what pd.read_csv made of the body: the first row is
\* written to the cache and returned; no table (lines 235-238) and an empty
\* table (lines 219-221) return None
fetch_parsed(files, planet_name_slug, table, clock) ==
  IF ~table.ok \/ table.v.rows = <<>> THEN [returned |-> PyNone, files |-> files]
  ELSE [returned |-> Series(table.v.rows[1]),
        files |-> write_to_cache(files, planet_name_slug, Series(table.v.rows[1]), clock)]

\* lines 202-239, on a cache miss
fetch_from_api(files, planet_name_slug, response, clock) ==
  IF response.raises # "none" \/ body_rejected(response.text)
  THEN [returned |-> PyNone, files |-> files]
  ELSE fetch_parsed(files, planet_name_slug, read_csv(response.text), clock)

\* a cache that keeps every planet in one file
planet_name_slug_shared(planet_name) == "planet"

\* line 197: the replace() calls find nothing to replace in a normalized name
planet_name_slug_of(planet_name) == Key(normalize_name(planet_name).s)

\* fetch_exoplanet_data_api(planet_name) at the hour clock, the archive
\* answering with response: what it returns and the cache directory after it
fetch_exoplanet_data_api(files, planet_name, response, clock) ==
  IF ~IsNone(read_from_cache(files, planet_name_slug_of(planet_name), clock))
  THEN [returned |-> read_from_cache(files, planet_name_slug_of(planet_name), clock),
        files |-> files]
  ELSE fetch_from_api(files, planet_name_slug_of(planet_name), response, clock)

MaxFetches == 2

\* a lookup, as routes.py makes it for each planet name of the request; the
\* archive fails in one of the ways the function handles, or answers with a
\* body: empty, blank, an error message, an HTML page, a table without rows,
\* with a row, or one that pd.read_csv cannot parse
Fetch ==
  /\ pc = "idle"
  /\ Len(calls) < MaxFetches
  /\ \E planet_name \in {Str(<<"K", "e", "p", "l", "e", "r", "-", "2", "2", " ", "b">>), Str(<<"k", "e", "p", "l", "e", "r", "2", "2", "b">>), Str(<<"E", "a", "r", "t", "h">>)},
        raises \in {"none", "HTTPError", "ConnectionError", "Timeout", "RequestException",
                    "RuntimeError"},
        text \in {<<>>, <<" ">>, <<"E", "R", "R", "O", "R", ":", " ", "n", "o", " ", "s", "u", "c", "h", " ", "t", "a", "b", "l", "e">>,
                  <<"<", "!", "D", "O", "C", "T", "Y", "P", "E", " ", "h", "t", "m", "l", ">", "\n",
                    "<", "p", ">", "D", "o", "w", "n", "<", "/", "p", ">">>,
                  <<"p", "l", "_", "n", "a", "m", "e", ",", "p", "l", "_", "m", "a", "s", "s", "e", "\n">>,
                  <<"p", "l", "_", "n", "a", "m", "e", ",", "p", "l", "_", "m", "a", "s", "s", "e", "\n",
                    "K", "e", "p", "l", "e", "r", "-", "2", "2", " ", "b", ",", "1", "0">>,
                  <<"p", "l", "_", "n", "a", "m", "e", ",", "p", "l", "_", "m", "a", "s", "s", "e", "\n",
                    "E", "a", "r", "t", "h", ",">>,
                  <<"a", "\n", "b", "\n", "c", ",", "d">>} :
       /\ raises # "none" => text = <<>>
       /\ args' = [planet_name |-> planet_name, response |-> [raises |-> raises, text |-> text]]
       /\ result' = Ret(fetch_exoplanet_data_api(cache, planet_name, args'.response, now).returned)
       /\ cache' = fetch_exoplanet_data_api(cache, planet_name, args'.response, now).files
       /\ calls' = Append(calls, [planet_name |-> planet_name, response |-> args'.response,
                                  returned |-> result'.v, files |-> cache, at |-> now])
  /\ op' = "fetch_exoplanet_data_api"
  /\ pc' = "done"
  /\ UNCHANGED <<caller, now, session>>

SpecFetch == Init /\ [][Fetch \/ Tick \/ Return]_vars

\* the lookup that has just returned, as the history records it
LastFetch == calls[Len(calls)]

\* the body is an HTML page or an error message of the archive
ErrorBody(text) ==
  StartsWith(text, <<"<", "!", "D", "O", "C", "T", "Y", "P", "E", " ", "h", "t", "m", "l", ">">>) \/ StartsWith(text, <<"E", "R", "R", "O", "R">>)

\* the lookup found nothing in the cache and the archive failed: an exception
\* of the request, an empty, blank or error body, a table that cannot be
\* parsed or that has no row
FailedLookup ==
  /\ Done("fetch_exoplanet_data_api")
  /\ IsNone(read_from_cache(LastFetch.files, planet_name_slug_of(args.planet_name), now))
  /\ \/ args.response.raises # "none"
     \/ Strip(args.response.text) = <<>>
     \/ ErrorBody(args.response.text)
     \/ ~read_csv(args.response.text).ok
     \/ read_csv(args.response.text).v.rows = <<>>

\* C21: a failed lookup returns None and leaves the cache directory as it was
C21_FailureLeavesCache ==
  FailedLookup => result = Ret(PyNone) /\ cache = LastFetch.files

\* the same for every failure but an HTML page: None, and the cache unchanged;
\* and the cache changes only in a lookup that returns a row
C21_FailureButHtmlLeavesCache ==
  /\ (FailedLookup /\ ~StartsWith(args.response.text, <<"<", "!", "D", "O", "C", "T", "Y", "P", "E", " ", "h", "t", "m", "l", ">">>)) =>
       result = Ret(PyNone) /\ cache = LastFetch.files
  /\ (Done("fetch_exoplanet_data_api") /\ cache # LastFetch.files) => ~IsNone(result.v)

\* the archive answered with an HTML page, and the page is in the cache
C21_HtmlCached ==
  /\ FailedLookup
  /\ StartsWith(args.response.text, <<"<", "!", "D", "O", "C", "T", "Y", "P", "E", " ", "h", "t", "m", "l", ">">>)
  /\ ~IsNone(result.v)
  /\ cache # LastFetch.files

\* the record is the first row the archive returned in the i-th lookup, as
\* returned then or as read back from the cache later
ReturnedByApi(i, record) ==
  /\ calls[i].response.raises = "none"
  /\ read_csv(calls[i].response.text).ok
  /\ read_csv(calls[i].response.text).v.rows # <<>>
  /\ \/ record = Series(read_csv(calls[i].response.text).v.rows[1])
     \/ record = series_of(convert_numpy_types(read_csv(calls[i].response.text).v.rows[1]))

\* C30 as stated: a record returned for a planet name is one the archive
\* returned in a lookup of that same name
C30_SameName ==
  (Done("fetch_exoplanet_data_api") /\ ~IsNone(result.v)) =>
    \E i \in DOMAIN calls : /\ calls[i].planet_name = args.planet_name
                            /\ ReturnedByApi(i, result.v)

\* C30, by normalized name: a record returned for a planet name is one the
\* archive returned in a lookup of a name with the same normalized form, its
\* letters and digits in lower case; never one of a name that differs in more
C30_SameNormalizedName ==
  (Done("fetch_exoplanet_data_api") /\ ~IsNone(result.v)) =>
    \E i \in DOMAIN calls : /\ normalize_name(calls[i].planet_name) = normalize_name(args.planet_name)
                            /\ ReturnedByApi(i, result.v)

\* the archive returned a row for "Kepler-22 b"; a later lookup of another
\* spelling of the name, with the archive failing, returns that row
C30_Witness ==
  /\ Done("fetch_exoplanet_data_api")
  /\ Len(calls) = 2
  /\ calls[1].planet_name # args.planet_name
  /\ normalize_name(calls[1].planet_name) = normalize_name(args.planet_name)
  /\ args.response.raises # "none"
  /\ ~IsNone(result.v)
  /\ ReturnedByApi(1, result.v)
  /\ Get(result.v.d, "pl_masse") = Int_(10)

(***************************************************************************)
(* The session routes of app/routes.py: the planets and weights a client   *)
(* keeps in its Flask session, and the reference values of its planets.    *)
(***************************************************************************)
\* float(v.strip()) if isinstance(v, str) else float(v), None when the value
\* is missing or the conversion fails (lines 411-417, 421-427)
slider_float(v) == IF pd_notna(v) THEN converted(float(v)) ELSE PyNone

\* sliders_phi(planet_data): the initial weights of the PHI sliders
sliders_phi(planet_data) ==
  [factor_name \in Range(expected_factors) |->
     CASE factor_name = "Solid Surface" ->
            IF \/ Contains(GetOr(planet_data, "classification", Str(<<>>)).s, <<"T", "e", "r", "r", "a", "n">>)
               \/ Contains(GetOr(planet_data, "classification", Str(<<>>)).s, <<"S", "u", "p", "e", "r", "t", "e", "r", "r", "a", "n">>)
            THEN DecMul(Dec(8, 1), Dec(25, 2)) ELSE DecMul(Int_(0), Dec(25, 2))
       [] factor_name = "Stable Energy" ->
            IF /\ IsStr(GetOr(planet_data, "st_spectype", Str(<<>>)))
               /\ \/ StartsWith(GetOr(planet_data, "st_spectype", Str(<<>>)).s, <<"G">>)
                  \/ StartsWith(GetOr(planet_data, "st_spectype", Str(<<>>)).s, <<"K">>)
               /\ ~IsNone(slider_float(Get(planet_data, "st_age")))
               /\ Lt(Int_(1), slider_float(Get(planet_data, "st_age")))
               /\ Lt(slider_float(Get(planet_data, "st_age")), Int_(8))
            THEN DecMul(Dec(7, 1), Dec(25, 2)) ELSE DecMul(Int_(0), Dec(25, 2))
       [] factor_name = "Stable Orbit" ->
            IF /\ ~IsNone(slider_float(Get(planet_data, "pl_orbeccen")))
               /\ Lt(slider_float(Get(planet_data, "pl_orbeccen")), Dec(2, 1))
            THEN DecMul(Dec(9, 1), Dec(25, 2)) ELSE DecMul(Int_(0), Dec(25, 2))
       [] OTHER -> DecMul(Int_(0), Dec(25, 2))]

\* the parameters of the Earth in reference_values_slider, in the order of the dict
earth_params ==
  <<[key |-> "pl_rade", val |-> Int_(1)], [key |-> "pl_dens", val |-> Dec(551, 2)],
    [key |-> "pl_eqt", val |-> Int_(255)]>>

\* lines 453-458 on the planet's value as a float: the similarities the
\* parameter appends, or the ZeroDivisionError of line 455, which the except
\* of line 459 does not catch
similarity_of(planet_val_fl, earth_val) ==
  IF ~planet_val_fl.ok THEN Ret(<<>>)
  ELSE IF DecAdd(planet_val_fl.v, earth_val).m = 0 THEN Raise("ZeroDivisionError")
  ELSE Ret(<<max(Int_(0),
                 DecSub(Int_(1), DecDiv(DecAbs(DecSub(planet_val_fl.v, earth_val)),
                                        DecAbs(DecAdd(planet_val_fl.v, earth_val)), 6)))>>)

\* lines 450-460 for one parameter
slider_similarity(planet_val, earth_val) ==
  IF pd_isna(planet_val) THEN Ret(<<>>) ELSE similarity_of(float(planet_val), earth_val)

\* the similarities of one parameter followed by those of the later ones
similarities_then(similarity, rest) ==
  IF ~similarity.ok THEN similarity
  ELSE IF ~rest.ok THEN rest
  ELSE Ret(similarity.v \o rest.v)

\* lines 447-460: the list esi_similarities after parameter i and the following
RECURSIVE esi_similarities(_, _)
esi_similarities(planet_data, i) ==
  IF i > Len(earth_params) THEN Ret(<<>>)
  ELSE similarities_then(slider_similarity(Get(planet_data, earth_params[i].key),
                                           earth_params[i].val),
                         esi_similarities(planet_data, i + 1))

\* lines 462-464: the mean similarity as a percentage
slider_esi(similarities) ==
  IF similarities = <<>> THEN Int_(0)
  ELSE DecMul(DecDiv(sum(similarities), Int_(Len(similarities)), 6), Int_(100))

\* lines 466-471: the mean of the initial PHI weights, times 400, clamped
slider_phi(initial_phi_weights) ==
  phi_clamp(DecMul(DecDiv(sum([i \in 1..Len(expected_factors) |->
                                 initial_phi_weights[expected_factors[i]]]),
                          Int_(Len(expected_factors)), 6),
                   Int_(400)))

\* lines 462-473 on the similarities collected
slider_values(similarities, initial_phi_weights) ==
  IF ~similarities.ok THEN similarities
  ELSE Ret(<<round(slider_esi(similarities.v), 2), round(slider_phi(initial_phi_weights), 2)>>)

\* reference_values_slider(planet_data): (esi_val, phi_val)
reference_values_slider(planet_data) ==
  slider_values(esi_similarities(planet_data, 1), sliders_phi(planet_data))

\* routes.py lines 67-74
DEFAULT_HABITABILITY_WEIGHTS ==
  [k \in {"Habitable Zone", "Size", "Density", "Atmosphere", "Water", "Presence of Moons",
          "Magnetic Activity", "System Age"} |-> Int_(1)]

DEFAULT_PHI_WEIGHTS == [k \in Range(expected_factors) |-> Dec(25, 2)]

\* session.pop(key, None)
pop(dict, key) == [k \in DOMAIN dict \ {key} |-> dict[k]]

\* a JSON object with the keys of its items, in order: a later item replaces
\* an earlier one of the same key
json_object(items, key(_)) ==
  [k \in {key(items[i].name) : i \in DOMAIN items} |->
     items[CHOOSE i \in DOMAIN items :
             /\ key(items[i].name) = k
             /\ \A j \in DOMAIN items : key(items[j].name) = k => j <= i].weights]

\* session.clear()
clear_session_all(flask_session) == <<>>

\* lines 783-788
clear_session(flask_session) ==
  pop(pop(pop(flask_session, "parameter_overrides_input"), "planet_weights"),
      "use_individual_weights")

\* lines 816-819: the weights of the request by normalized planet name
normalized_planet_weights(planet_weights) ==
  json_object(planet_weights, planet_name_slug_of)

\* lines 824-831 on the request data
save_planet_weights(flask_session, data) ==
  IF GetOr(data, "use_individual_weights", FALSE)
     /\ DOMAIN normalized_planet_weights(GetOr(data, "planet_weights", <<>>)) # {}
  THEN Update(flask_session,
              [use_individual_weights |-> GetOr(data, "use_individual_weights", FALSE),
               planet_weights |->
                 Update(GetOr(flask_session, "planet_weights", <<>>),
                        normalized_planet_weights(GetOr(data, "planet_weights", <<>>)))])
  ELSE Update(flask_session,
              [use_individual_weights |-> GetOr(data, "use_individual_weights", FALSE)])

\* lines 879-885
save_planets_to_session(flask_session, planet_names) ==
  IF planet_names # <<>>
  THEN [session |-> Update(flask_session, [planet_names_list |-> planet_names]),
        response |-> Ret([status |-> "saved"])]
  ELSE [session |-> flask_session, response |-> Ret([status |-> "no_planets"])]

\* lines 128-139 on the names and overrides of the submitted form
index_post(flask_session, planet_names_list, parameter_overrides_input) ==
  IF planet_names_list = <<>> THEN flask_session
  ELSE Update(flask_session, [planet_names_list |-> planet_names_list,
                              parameter_overrides_input |-> parameter_overrides_input])

\* the archive's answer to the query of line 204 for a planet name: the
\* table of the planet, or the header alone for a name it does not hold
archive_response(planet_name) ==
  [raises |-> "none",
   text |-> IF planet_name = Str(<<"K", "e", "p", "l", "e", "r", "-", "4", "5", "2", " ", "b">>)
            THEN <<"p", "l", "_", "n", "a", "m", "e", ",", "p", "l", "_", "r", "a", "d", "e", ",", "p", "l", "_", "d", "e", "n", "s", ",", "p", "l", "_", "e", "q", "t">> \o <<"\n">>
                 \o <<"K", "e", "p", "l", "e", "r", "-", "4", "5", "2", " ", "b", ",", "1", ".", "5", ",", ",", "2", "6", "5">>
            ELSE <<"p", "l", "_", "n", "a", "m", "e", ",", "p", "l", "_", "r", "a", "d", "e", ",", "p", "l", "_", "d", "e", "n", "s", ",", "p", "l", "_", "e", "q", "t">> \o <<"\n">>]

\* the key of a JSON object for a name
name_key(name) == Key(name.s)

\* lines 335-338: use_individual_weights and planet_weights of the request
request_weights(request) ==
  IF request.method = "POST"
  THEN [use_individual_weights |-> GetOr(request.json, "use_individual_weights", FALSE),
        planet_weights |-> json_object(GetOr(request.json, "planet_weights", <<>>), name_key)]
  ELSE [use_individual_weights |-> FALSE, planet_weights |-> <<>>]

\* lines 341-344 and 367-374: the weights process_planet_data is called with
reference_weights(flask_session, normalized_planet_name, request) ==
  LET global_habitability_weights ==
        GetOr(flask_session, "habitability_weights", DEFAULT_HABITABILITY_WEIGHTS)
      global_phi_weights == GetOr(flask_session, "phi_weights", DEFAULT_PHI_WEIGHTS)
      planet_weights == request_weights(request).planet_weights
  IN  IF /\ request_weights(request).use_individual_weights
         /\ Key(normalized_planet_name.s) \in DOMAIN planet_weights
      THEN [habitability |-> GetOr(planet_weights[Key(normalized_planet_name.s)],
                                   "habitability", global_habitability_weights),
            phi |-> GetOr(planet_weights[Key(normalized_planet_name.s)],
                          "phi", global_phi_weights)]
      ELSE [habitability |-> global_habitability_weights, phi |-> global_phi_weights]

\* lines 389-394: the entry of the planet with its reference values
reference_entry(planet_data, normalized_planet_name, values) ==
  IF ~values.ok THEN values
  ELSE Ret([name |-> GetOr(planet_data, "pl_name", normalized_planet_name),
            esi |-> values.v[1],
            phi |-> values.v[2],
            classification |-> GetOr(planet_data, "classification",
                                     Str(<<"U", "n", "k", "n", "o", "w", "n">>))])

\* lines 384-394 on the planet_data_dict of the processed result
reference_planet_of(planet_data, normalized_planet_name) ==
  reference_entry(planet_data, normalized_planet_name, reference_values_slider(planet_data))

\* lines 383-394 with the ESI and PHI of the processed scores in place of
\* the slider defaults
reference_planet_scored(processed_result, normalized_planet_name) ==
  IF ~processed_result.ok THEN processed_result
  ELSE Ret([name |-> GetOr(processed_result.v.planet_data_dict, "pl_name",
                           normalized_planet_name),
            esi |-> processed_result.v.scores_for_report["ESI"][1],
            phi |-> processed_result.v.scores_for_report["PHI"][1],
            classification |-> GetOr(processed_result.v.planet_data_dict, "classification",
                                     Str(<<"U", "n", "k", "n", "o", "w", "n">>))])

\* lines 383-396 on what process_planet_data returned or raised
reference_planet(processed_result, normalized_planet_name) ==
  IF ~processed_result.ok THEN processed_result
  ELSE reference_planet_of(processed_result.v.planet_data_dict, normalized_planet_name)

\* lines 364-396 on the fetched record and its normalized name
reference_of_named(flask_session, api_data, normalized_planet_name, request) ==
  reference_planet(
    process_planet_data(
      normalized_planet_name,
      merge_data_sources(Series(api_data), DataFrame(<<>>), DataFrame(<<>>),
                         normalized_planet_name, PyNone),
      reference_weights(flask_session, normalized_planet_name, request)),
    normalized_planet_name)

\* lines 361-396 for one planet whose record was fetched
reference_of_record(flask_session, api_data, request) ==
  reference_of_named(flask_session, api_data, normalize_name(Get(api_data, "pl_name")), request)

\* lines 357-396 for one planet and the planets after it: no record skips
\* the planet, an exception ends the request
reference_step(fetched, entry, rest) ==
  IF IsNone(fetched.returned) THEN rest
  ELSE IF ~entry.ok THEN [response |-> entry, files |-> fetched.files]
  ELSE IF ~rest.response.ok THEN rest
  ELSE [response |-> Ret(<<entry.v>> \o rest.response.v), files |-> rest.files]

\* lines 353-396: the loop from planet i of the list on; the entries of
\* reference_planets, or the exception that ended the request, with the cache
\* directory as the lookups left it
RECURSIVE reference_planets(_, _, _, _, _, _)
RECURSIVE reference_fetched(_, _, _, _, _, _)
reference_fetched(flask_session, fetched, planet_names_list, i, request, clock) ==
  reference_step(fetched,
                 reference_of_record(flask_session,
                                     named(planet_names_list[i], fetched.returned.d), request),
                 reference_planets(flask_session, fetched.files, planet_names_list, i + 1,
                                   request, clock))

reference_planets(flask_session, files, planet_names_list, i, request, clock) ==
  IF i > Len(planet_names_list) THEN [response |-> Ret(<<>>), files |-> files]
  ELSE reference_fetched(flask_session,
                         fetch_exoplanet_data_api(files, planet_names_list[i],
                                                  archive_response(planet_names_list[i]), clock),
                         planet_names_list, i, request, clock)

\* get_planet_reference_values: the JSON of the response
get_planet_reference_values(flask_session, files, request, clock) ==
  reference_planets(flask_session, files, GetOr(flask_session, "planet_names_list", <<>>),
                    1, request, clock)

\* the planet of the tests, and a name the archive does not hold
Kepler452b == Str(<<"K", "e", "p", "l", "e", "r", "-", "4", "5", "2", " ", "b">>)

Nowhere == Str(<<"N", "o", "w", "h", "e", "r", "e">>)

\* the planet's initial weights (test_routes.py lines 61-62, 70-71)
InitialWeights ==
  [habitability |-> [k \in {"Size", "Density", "Habitable Zone"} |-> Int_(1)],
   phi |-> [k \in Range(expected_factors) |-> Dec(25, 2)]]

\* sliders moved to the middle
HalfWeights ==
  [habitability |-> [k \in {"Size", "Density", "Habitable Zone"} |-> Dec(5, 1)],
   phi |-> [k \in Range(expected_factors) |-> Dec(125, 3)]]

\* the planet_weights of a request: none, the planet's initial weights, or
\* other weights for it
RequestPlanetWeights ==
  {<<>>, <<[name |-> Kepler452b, weights |-> InitialWeights]>>,
   <<[name |-> Kepler452b, weights |-> HalfWeights]>>}

\* the call in progress on the session, with the session as the request found it
SessionCall(name, request, response) ==
  /\ op' = name
  /\ args' = [request |-> request, session |-> session]
  /\ result' = response
  /\ pc' = "done"

\* POST / with the form filled in (lines 122-139)
IndexPost ==
  /\ pc = "idle"
  /\ session' = index_post(session, <<Nowhere, Kepler452b>>, Str(<<"p", "l", "_", "r", "a", "d", "e", "=", "2">>))
  /\ SessionCall("index", [method |-> "POST"], Ret([status |-> "redirect"]))
  /\ UNCHANGED <<caller, calls, cache, now>>

\* POST /api/save-planets-to-session
SavePlanetsToSession ==
  /\ pc = "idle"
  /\ \E planet_names \in {<<>>, <<Kepler452b>>} :
       /\ session' = save_planets_to_session(session, planet_names).session
       /\ SessionCall("save_planets_to_session",
                      [method |-> "POST", json |-> [planet_names |-> planet_names]],
                      save_planets_to_session(session, planet_names).response)
  /\ UNCHANGED <<caller, calls, cache, now>>

\* with client.session_transaction() as sess (test_routes.py lines 60-62): the
\* planet's initial weights, and global weights other than the defaults
SessionTransaction ==
  /\ pc = "idle"
  /\ "initial_hab_weights" \notin DOMAIN session
  /\ session' = Update(session,
                       [initial_hab_weights |-> [kepler452b |-> InitialWeights.habitability],
                        initial_phi_weights |-> [kepler452b |-> InitialWeights.phi],
                        habitability_weights |-> HalfWeights.habitability,
                        phi_weights |-> HalfWeights.phi])
  /\ SessionCall("session_transaction", [method |-> "none"], Ret(PyNone))
  /\ UNCHANGED <<caller, calls, cache, now>>

\* POST /api/clear-session
ClearSession ==
  /\ pc = "idle"
  /\ session' = clear_session(session)
  /\ SessionCall("clear_session", [method |-> "POST"],
                 Ret([status |-> "partial session cleared"]))
  /\ UNCHANGED <<caller, calls, cache, now>>

\* POST /api/save-planet-weights.  calls: the first reference-values response
\* so far with the planet list it was for and whether weights were saved
\* since, and the last save-planet-weights request with the planet weights
\* and initial weights the session held when it came
SavePlanetWeights ==
  /\ pc = "idle"
  /\ \E use_individual_weights \in BOOLEAN, planet_weights \in RequestPlanetWeights :
       LET data == [use_individual_weights |-> use_individual_weights,
                    planet_weights |-> planet_weights]
       IN  /\ session' = save_planet_weights(session, data)
           /\ SessionCall("save_planet_weights", [method |-> "POST", json |-> data],
                          Ret([status |-> "success"]))
           /\ calls' = Update(IF "reference" \in DOMAIN calls
                              THEN Update(calls, [reference |->
                                                    Update(calls.reference, [saved |-> TRUE])])
                              ELSE calls,
                              [save |-> [data |-> data,
                                         planet_weights |-> Get(session, "planet_weights"),
                                         initial_hab_weights |-> Get(session, "initial_hab_weights"),
                                         initial_phi_weights |-> Get(session, "initial_phi_weights")]])
  /\ UNCHANGED <<caller, cache, now>>

\* the response served, the lookups written to the cache directory, and the
\* first response kept
ReferenceServed(request, served) ==
  /\ SessionCall("get_planet_reference_values", request, served.response)
  /\ cache' = served.files
  /\ calls' = IF "reference" \in DOMAIN calls THEN calls
              ELSE Update(calls,
                          [reference |->
                             [planet_names_list |-> GetOr(session, "planet_names_list", <<>>),
                              response |-> served.response,
                              saved |-> FALSE]])

\* GET or POST /api/planets/reference_values
ReferenceValues ==
  /\ pc = "idle"
  /\ \E request \in {[method |-> "GET"]}
                    \cup {[method |-> "POST",
                           json |-> [use_individual_weights |-> use_individual_weights,
                                     planet_weights |-> planet_weights]] :
                            use_individual_weights \in BOOLEAN,
                            planet_weights \in {<<>>, <<[name |-> Str(<<"k", "e", "p", "l", "e", "r", "4", "5", "2", "b">>),
                                                       weights |-> HalfWeights]>>}} :
       ReferenceServed(request, get_planet_reference_values(session, cache, request, now))
  /\ UNCHANGED <<caller, now, session>>

SpecSession ==
  Init /\ [][IndexPost \/ SavePlanetsToSession \/ SessionTransaction \/ ClearSession
             \/ SavePlanetWeights \/ ReferenceValues \/ Return]_vars

\* the three keys clear-session removes
ClearedKeys == {"parameter_overrides_input", "planet_weights", "use_individual_weights"}

\* C22: clear-session removes exactly the keys parameter_overrides_input,
\* planet_weights and use_individual_weights, leaves every other key of the
\* session with its value, and succeeds whether or not the keys were there
C22_ClearsThreeKeys ==
  Done("clear_session") =>
    /\ result = Ret([status |-> "partial session cleared"])
    /\ DOMAIN session = DOMAIN args.session \ ClearedKeys
    /\ \A key \in DOMAIN session : session[key] = args.session[key]

\* a session with the three keys, the planet list and the global weights was cleared
C22_Witness ==
  /\ Done("clear_session")
  /\ ClearedKeys \subseteq DOMAIN args.session
  /\ {"planet_names_list", "habitability_weights", "phi_weights"} \subseteq DOMAIN session
  /\ session["planet_names_list"] = <<Nowhere, Kepler452b>>
  /\ session["habitability_weights"] = HalfWeights.habitability
  /\ DOMAIN session \cap ClearedKeys = {}

SavedInitialWeights ==
  /\ "save" \in DOMAIN calls
  /\ calls.save.planet_weights = PyNone
  /\ calls.save.initial_hab_weights # PyNone
  /\ calls.save.initial_phi_weights # PyNone
  /\ calls.save.data.use_individual_weights
  /\ calls.save.data.planet_weights # <<>>
  /\ \A i \in DOMAIN calls.save.data.planet_weights :
       LET item == calls.save.data.planet_weights[i]
       IN  /\ planet_name_slug_of(item.name) \in DOMAIN calls.save.initial_hab_weights
           /\ item.weights.habitability = calls.save.initial_hab_weights[planet_name_slug_of(item.name)]
           /\ item.weights.phi = calls.save.initial_phi_weights[planet_name_slug_of(item.name)]

\* C24: after the planet's initial weights were saved as individual weights
\* to a session without planet_weights, and the reference values requested,
\* the session's planet_weights is absent or empty
C24_InitialWeightsNotStored ==
  (/\ Done("get_planet_reference_values")
   /\ "planet_names_list" \in DOMAIN session
   /\ SavedInitialWeights) =>
    \/ "planet_weights" \notin DOMAIN session
    \/ DOMAIN session["planet_weights"] = {}

\* what the code does with them: the weights of the request are in the
\* session under the normalized planet name
C24_InitialWeightsStored ==
  /\ Done("get_planet_reference_values")
  /\ "planet_names_list" \in DOMAIN session
  /\ SavedInitialWeights
  /\ "planet_weights" \in DOMAIN session
  /\ session["planet_weights"] = [kepler452b |-> InitialWeights]

\* calculate_sephi returned five numbers
SephiReturned ==
  Done("calculate_sephi") /\ result.ok /\ result.v # sephi_none

\* of the call that returned: L1 as a fraction, the radius, and whether the
\* orbit is within the tidal-locking distance (line 239)
SephiL1 == result.v[2].m

SephiRadius == ToFX(converted_param(args.core[2]))

SephiLocked ==
  semi_major_axis_au(ToFX(converted_param(args.core[4])), converted_param(args.core[3]))
    <= a_lock(ToFX(converted_param(args.core[4])),
              planet_density_actual(IF pd_isna(args.planet_density_val) THEN PyNone
                                    ELSE float(args.planet_density_val).v,
                                    ToFX(converted_param(args.core[1])), SephiRadius),
              ToFX(converted_param(args.core[7])))

\* the constants <<rho_0n, r_0n, F_n, alpha>> of the call
SephiConstants == regime_constants(SephiL1, SephiRadius, SephiLocked)

\* the constants of the radius classes: up to 5, up to 15 and above 15 Earth radii
RadiusConstants(pr) ==
  IF pr <= 5 * FXS THEN <<FX(45, 2), MulFX(FX(18, 1), pr), 4 * pr>>
  ELSE IF pr <= 15 * FXS THEN <<FX(18, 2), MulFX(FX(48, 1), pr), 20 * pr>>
  ELSE <<FX(16, 2), 16 * pr, 100 * pr>>

\* C25 as stated: with L1 > 0.5 the constants are those of the planet's
\* radius class; with L1 <= 0.5 alpha is 0.05
C25_RadiusWhenRocky ==
  SephiReturned =>
    /\ SephiL1 > FX(5, 1) => SubSeq(SephiConstants, 1, 3) = RadiusConstants(SephiRadius)
    /\ SephiL1 <= FX(5, 1) => SephiConstants[4] = FX(5, 2)

\* C25, the branches as the code has them: with L1 > 0.5 the constants are
\* rho_0n = 1, r_0n = F_n = the radius, and alpha is 0.05 when the planet is
\* tidally locked, else 1; with L1 <= 0.5 they are those of the radius class
\* (up to 5, up to 15, above 15 Earth radii) and alpha is 1.  In the result:
\* L4 is 100 for a planet of at least one Earth radius unless it is rocky
\* and locked, and below 100 for a rocky locked planet of at most two radii
C25_RadiusWhenNotRocky ==
  SephiReturned =>
    /\ SephiL1 > FX(5, 1) =>
         SephiConstants = <<FXS, SephiRadius, SephiRadius,
                            IF SephiLocked THEN FX(5, 2) ELSE FXS>>
    /\ SephiL1 <= FX(5, 1) =>
         /\ SubSeq(SephiConstants, 1, 3) = RadiusConstants(SephiRadius)
         /\ SephiConstants[4] = FXS
    /\ (SephiRadius >= FXS /\ ~(SephiL1 > FX(5, 1) /\ SephiLocked)) =>
         NumEq(result.v[5], Int_(100))
    /\ (SephiL1 > FX(5, 1) /\ SephiLocked /\ SephiRadius <= 2 * FXS) =>
         Lt(result.v[5], Int_(100))

\* a rocky planet within the locking distance of its red dwarf: alpha 0.05, L4 below 2
C25_Witness ==
  /\ SephiReturned
  /\ SephiL1 > FX(5, 1)
  /\ SephiLocked
  /\ SephiConstants = <<FXS, FX(9, 1), FX(9, 1), FX(5, 2)>>
  /\ Lt(result.v[5], Int_(2))

\* a planet of more than 15 Earth radii: the constants of the largest class
C25_WitnessGiant ==
  /\ SephiReturned
  /\ SephiL1 <= FX(5, 1)
  /\ SephiLocked
  /\ SephiRadius > 15 * FXS
  /\ SephiConstants = <<FX(16, 2), 16 * SephiRadius, 100 * SephiRadius, FXS>>

\* the four factors of the call that returned, as fractions
SephiFactors == [i \in 1..4 |-> result.v[i + 1].m]

\* the fourth power of the returned SEPHI and the product of the factors
\* differ by less than a ten-thousandth
IsGeometricMean(s, L) ==
  Abs(MulFX(MulFX(s, s), MulFX(s, s)) - MulFX(MulFX(L[1], L[2]), MulFX(L[3], L[4]))) < 100

C26_WitnessZero ==
  /\ SephiReturned
  /\ args.core[1] = Int_(317)
  /\ SephiFactors[3] = 0
  /\ SephiFactors[1] > 0
  /\ result.v[1].m = 0

(***************************************************************************)
(* reports.py: the scores of the summary and combined reports.             *)
(* _prepare_data_for_aggregated_reports turns the bundle of each planet    *)
(* into the data of the report templates.  The model has the entry's name, *)
(* classification, scores, SEPHI scores and enrichment fields; the display *)
(* strings of the entry (travel times, gravity, discovery, star            *)
(* information) are formatted copies of the record and are not modelled.   *)
(***************************************************************************)
\* reports.get_color_for_percentage (lines 30-60)
report_color_for_percentage(percentage) ==
  IF pd_isna(percentage) \/ ~float(percentage).ok THEN "#808080"
  ELSE IF Ge(float(percentage).v, Int_(80)) THEN "#28a745"
  ELSE IF Ge(float(percentage).v, Int_(60)) THEN "#90ee90"
  ELSE IF Ge(float(percentage).v, Int_(40)) THEN "#ffc107"
  ELSE IF Ge(float(percentage).v, Int_(20)) THEN "#fd7e14"
  ELSE "#dc3545"

\* a < b for floats: False when one of them is NaN
float_lt(a, b) == ~IsNaN(a) /\ ~IsNaN(b) /\ Lt(a, b)

float_le(a, b) == ~IsNaN(a) /\ ~IsNaN(b) /\ Le(a, b)

\* try: x = float(x_str) except (ValueError, TypeError): None
float_or_none(x_str) ==
  IF IsNone(x_str) \/ ~float(x_str).ok THEN PyNone ELSE float(x_str).v

\* float(x_str) raises
float_fails(x_str) == ~IsNone(x_str) /\ ~float(x_str).ok

\* lines 471-473: st_teff * (st_rad / (2 a)) ** 0.5 * (1 - albedo) ** 0.25 in
\* kelvin; (1 - 0.3) ** 0.25 = 0.914691.  A negative radius has a complex
\* root, which the comparisons of lines 484-492 refuse with a TypeError
temp_calculated(st_teff_num, st_rad_num, pl_orbsmax_num) ==
  IF IsNaN(st_teff_num) \/ IsNaN(st_rad_num) THEN Ret(PyNaN)
  ELSE IF st_rad_num.m < 0 THEN Raise("TypeError")
  ELSE Ret(Dec(MulFX(MulFX(FX(st_teff_num.m, st_teff_num.d + 3),
                           SqrtFX(DivFX(ToFX(st_rad_num), 2 * ToFX(pl_orbsmax_num)))),
                     914691), 3))

\* lines 455-476: the three star parameters are converted in one try, so the
\* first that fails leaves the later ones None; 278 K when one is missing
temp_from_star(st_teff_str, st_rad_str, pl_orbsmax_str) ==
  IF \/ IsNone(float_or_none(st_teff_str))
     \/ IsNone(float_or_none(st_rad_str))
     \/ IsNone(float_or_none(pl_orbsmax_str))
     \/ ~float_lt(Int_(0), float_or_none(pl_orbsmax_str))
  THEN Ret(Int_(278))
  ELSE temp_calculated(float_or_none(st_teff_str), float_or_none(st_rad_str),
                       float_or_none(pl_orbsmax_str))

\* lines 444-481: the temperature the atmosphere and water scores are taken of
enrich_temp(data) ==
  IF ~IsNone(float_or_none(Get(data, "pl_eqt"))) THEN Ret(float_or_none(Get(data, "pl_eqt")))
  ELSE temp_from_star(Get(data, "st_teff"), Get(data, "st_rad"), Get(data, "pl_orbsmax"))

\* lines 484-493
atmosphere_score(temp) ==
  IF float_lt(Int_(273), temp) /\ float_le(temp, Int_(373)) THEN 90
  ELSE IF \/ float_le(Int_(200), temp) /\ float_le(temp, Int_(273))
          \/ float_lt(Int_(373), temp) /\ float_le(temp, Int_(450)) THEN 50
  ELSE 20

\* lines 496-497
atmosphere_desc(temp) ==
  IF atmosphere_score(temp) = 90 THEN <<"L", "i", "k", "e", "l", "y">>
  ELSE IF atmosphere_score(temp) = 50 THEN <<"P", "o", "s", "s", "i", "b", "l", "e">>
  ELSE <<"U", "n", "l", "i", "k", "e", "l", "y">>

\* "Terran" in classification or "Superterran" in classification
terran_like(classification) ==
  In(<<"T", "e", "r", "r", "a", "n">>, classification) \/ In(<<"S", "u", "p", "e", "r", "t", "e", "r", "r", "a", "n">>, classification)

\* st_spectype.startswith(prefix) where st_spectype is a string
spectype_starts(st_spectype, prefix) == StartsWith(st_spectype.s, prefix)

\* lines 516-529 and 532-537 call st_spectype.startswith on a value that is
\* true but no string (NaN, a number): AttributeError
spectype_raises(st_spectype) == truthy(st_spectype) /\ ~IsStr(st_spectype)

\* lines 507-529: magnetic_score
magnetic_activity_score(mass, classification, st_spectype) ==
  IF ~IsNone(mass)
  THEN IF float_lt(Int_(1), mass) /\ terran_like(classification)
       THEN IF truthy(st_spectype) /\ spectype_starts(st_spectype, <<"K">>) THEN Int_(90)
            ELSE Int_(80)
       ELSE IF float_lt(mass, Dec(5, 1)) THEN Int_(40)
       ELSE Dec(100, 1)
  ELSE IF truthy(st_spectype)
       THEN IF spectype_starts(st_spectype, <<"M">>) THEN Int_(40)
            ELSE IF spectype_starts(st_spectype, <<"G">>) \/ spectype_starts(st_spectype, <<"K">>)
                 THEN Int_(80)
            ELSE Dec(100, 1)
  ELSE Dec(100, 1)

\* lines 532-537: magnetic_desc
magnetic_activity_desc(mass, classification, st_spectype) ==
  IF \/ ~IsNone(mass) /\ float_lt(Int_(1), mass) /\ terran_like(classification)
     \/ /\ truthy(st_spectype)
        /\ spectype_starts(st_spectype, <<"G">>) \/ spectype_starts(st_spectype, <<"K">>)
  THEN <<"H", "i", "g", "h">>
  ELSE IF ~IsNone(mass) /\ float_le(Dec(5, 1), mass) THEN <<"M", "o", "d", "e", "r", "a", "t", "e">>
  ELSE <<"L", "o", "w">>

\* lines 484-556: the scores and descriptions for a temperature
enriched_at(temp, mass, classification, st_spectype) ==
  [atmosphere_potential_score |-> Int_(atmosphere_score(temp)),
   liquid_water_potential_score |-> Int_(atmosphere_score(temp)),
   magnetic_activity_score |-> magnetic_activity_score(mass, classification, st_spectype),
   presence_of_moons_score |-> IF terran_like(classification) THEN Int_(80) ELSE Int_(30),
   atmosphere_potential_desc |-> Str(atmosphere_desc(temp)),
   liquid_water_potential_desc |-> Str(atmosphere_desc(temp)),
   magnetic_activity_desc |-> Str(magnetic_activity_desc(mass, classification, st_spectype)),
   presence_of_moons_desc |-> IF terran_like(classification) THEN Str(<<"P", "o", "s", "s", "i", "b", "l", "e">>)
                              ELSE Str(<<"U", "n", "l", "i", "k", "e", "l", "y">>)]

\* enrich_atmosphere_water_magnetic_moons(data, classification), lines 425-556
enrich_atmosphere_water_magnetic_moons(data, classification) ==
  IF ~enrich_temp(data).ok THEN enrich_temp(data)
  ELSE IF spectype_raises(Get(data, "st_spectype")) THEN Raise("AttributeError")
  ELSE Ret(enriched_at(enrich_temp(data).v, float_or_none(Get(data, "pl_masse")),
                       classification, Get(data, "st_spectype")))

\* safe_get(dictionary, key, default), lines 630-636
safe_get(dictionary, key, default) ==
  IF pd_isna(Get(dictionary, key)) THEN default
  ELSE IF /\ IsStr(Get(dictionary, key))
          /\ Strip(Get(dictionary, key).s) \in {<<"n", "/", "a">>, <<"N", "/", "A">>, <<"N", "/", "a">>, <<"n", "/", "A">>}
  THEN default
  ELSE Get(dictionary, key)

\* lines 708-710: classification_text
classification_text_of(planet_raw_TAP_data) ==
  IF "classification_final_display" \in DOMAIN planet_raw_TAP_data
  THEN safe_get(planet_raw_TAP_data, "classification_final_display",
                safe_get(planet_raw_TAP_data, "classification", Str(<<"U", "n", "k", "n", "o", "w", "n">>)))
  ELSE safe_get(planet_raw_TAP_data, "classification", Str(<<"U", "n", "k", "n", "o", "w", "n">>))

\* lines 715-737 and 748-754: the Stellar_Activity entry for st_age
stellar_activity_of(st_age_str) ==
  IF IsNone(st_age_str) \/ ~float(st_age_str).ok
  THEN [score |-> Int_(30), color |-> report_color_for_percentage(Int_(30)),
        text |-> Str(<<"L", "o", "w", " ", "(", "d", "e", "f", "a", "u", "l", "t", " ", "o", "r", " ", "<", "=", " ", "2", " ", "G", "y", "r", ")">>)]
  ELSE IF float_lt(Int_(5), float(st_age_str).v)
  THEN [score |-> Int_(90), color |-> report_color_for_percentage(Int_(90)),
        text |-> Str(<<"H", "i", "g", "h", " ", "(", "a", "g", "e", " ", ">", " ", "5", " ", "G", "y", "r", ")">>)]
  ELSE IF float_lt(Int_(2), float(st_age_str).v)
  THEN [score |-> Int_(60), color |-> report_color_for_percentage(Int_(60)),
        text |-> Str(<<"M", "o", "d", "e", "r", "a", "t", "e", " ", "(", "a", "g", "e", " ", "2", "-", "5", " ", "G", "y", "r", ")">>)]
  ELSE [score |-> Int_(30), color |-> report_color_for_percentage(Int_(30)),
        text |-> Str(<<"L", "o", "w", " ", "(", "d", "e", "f", "a", "u", "l", "t", " ", "o", "r", " ", "<", "=", " ", "2", " ", "G", "y", "r", ")">>)]

\* the default score information: {"score": 0.0, "color": "#808080", "text": "N/A"}
default_score_info == [score |-> Dec(0, 1), color |-> "#808080", text |-> Str(NA)]

\* str(raw_score_value): the digits of the number as the model holds it (an
\* int and a float of the same value are one number here)
str_of_score(raw_score_value) ==
  IF IsStr(raw_score_value) THEN raw_score_value
  ELSE Str(FormatFixed(raw_score_value, raw_score_value.d))

\* lines 661-683: the information of a score tuple whose first item is there
\* and has the number numeric_val_for_format.  The colours of a bundle all
\* start with "#".
score_info_of(score_tuple, numeric_val_for_format) ==
  [score |-> numeric_val_for_format,
   color |-> IF Len(score_tuple) > 1 THEN score_tuple[2]
             ELSE report_color_for_percentage(numeric_val_for_format),
   text |-> IF Len(score_tuple) > 2 /\ ~IsNone(score_tuple[3]) /\ Strip(score_tuple[3].s) # <<>>
            THEN score_tuple[3]
            ELSE str_of_score(score_tuple[1])]

\* lines 664-669: float(raw_score_value), 0.0 when it raises
numeric_or_default(converted_value) ==
  IF converted_value.ok THEN converted_value.v ELSE Dec(0, 1)

score_tuple_info(score_tuple) ==
  score_info_of(score_tuple, numeric_or_default(float(score_tuple[1])))

\* get_score_info(scores_dict, field_name) of lines 646-683, and of lines
\* 558-614 for a map of tuples: the default when the field has no tuple or
\* its first item is missing
get_score_info(scores_dict, field_name) ==
  IF \/ field_name \notin DOMAIN scores_dict
     \/ Len(scores_dict[field_name]) < 1
     \/ pd_isna(scores_dict[field_name][1])
  THEN default_score_info
  ELSE score_tuple_info(scores_dict[field_name])

\* get_score_description (lines 85-98)
described(score_info) ==
  [score |-> score_info.score,
   color |-> score_info.color,
   text |-> IF Ge(score_info.score, Int_(80)) THEN Str(<<"L", "i", "k", "e", "l", "y">>)
            ELSE IF Ge(score_info.score, Int_(50)) THEN Str(<<"P", "o", "s", "s", "i", "b", "l", "e">>)
            ELSE Str(<<"U", "n", "l", "i", "k", "e", "l", "y">>)]

get_score_description(scores_dict, field_name, classification) ==
  described(get_score_info(scores_dict, field_name))

\* get_score_description_bio (lines 100-119): float(pl_eqt) inside a bare try
described_bio(score_info, pl_eqt) ==
  [score |-> score_info.score,
   color |-> score_info.color,
   text |-> IF float_fails(pl_eqt) THEN Str(<<"U", "n", "l", "i", "k", "e", "l", "y">>)
            ELSE IF ~IsNone(pl_eqt) /\ float_lt(Int_(1000), float(pl_eqt).v)
            THEN Str(<<"U", "n", "l", "i", "k", "e", "l", "y", " ", "(", "T", "o", "o", " ", "H", "o", "t", ")">>)
            ELSE IF Ge(score_info.score, Int_(60)) THEN Str(<<"L", "i", "k", "e", "l", "y">>)
            ELSE IF Ge(score_info.score, Int_(30)) THEN Str(<<"P", "o", "s", "s", "i", "b", "l", "e">>)
            ELSE Str(<<"U", "n", "l", "i", "k", "e", "l", "y">>)]

get_score_description_bio(scores_dict, field_name, pl_eqt) ==
  described_bio(get_score_info(scores_dict, field_name), pl_eqt)

\* to_float_or_none (lines 143-148)
report_float_or_none(val) == IF pd_isna(val) THEN PyNone ELSE float_or_none(val)

\* get_score_description_moons (lines 121-141)
described_moons(score_info, classification, mass, pl_orbsmax) ==
  [score |-> score_info.score,
   color |-> score_info.color,
   text |-> IF In(<<"N", "e", "p", "t", "u", "n", "i", "a", "n">>, classification) \/ In(<<"J", "o", "v", "i", "a", "n">>, classification)
            THEN Str(<<"L", "i", "k", "e", "l", "y">>)
            ELSE IF ~terran_like(classification) THEN Str(<<"U", "n", "l", "i", "k", "e", "l", "y">>)
            ELSE IF IsNone(mass) \/ ~float_lt(Dec(5, 1), mass) THEN Str(<<"U", "n", "l", "i", "k", "e", "l", "y">>)
            ELSE IF ~IsNone(pl_orbsmax) /\ float_lt(Int_(1), pl_orbsmax)
            THEN Str(<<"H", "i", "g", "h", "l", "y", " ", "P", "o", "s", "s", "i", "b", "l", "e">>)
            ELSE Str(<<"P", "o", "s", "s", "i", "b", "l", "e">>)]

get_score_description_moons(scores_dict, field_name, classification, planet_data) ==
  described_moons(get_score_info(scores_dict, field_name), classification,
                  report_float_or_none(Get(planet_data, "pl_masse")),
                  report_float_or_none(Get(planet_data, "pl_orbsmax")))

\* the entry made of an enrichment score and description (lines 757-775):
\* np.clip(float(score), 0, 100) with the colour of the score
enriched_entry(score, desc) ==
  [score |-> max(Int_(0), min(score, Int_(100))),
   color |-> report_color_for_percentage(score),
   text |-> desc]

\* lines 740-785: scores_for_template.  The dict display names "Magnetic_Activity"
\* twice, on line 767 with the enrichment score and on line 776 with the score
\* of the bundle; a dict display keeps the value of the last occurrence of a key.
scores_for_template_of(scores_processed, enriched_details, classification_text, planet_raw_TAP_data) ==
  [name \in {"ESI", "SPH", "PHI", "Host_Star_Type", "System_Age", "Stellar_Activity",
             "Orbital_Eccentricity", "Atmosphere_Potential", "Liquid_Water_Potential",
             "Magnetic_Activity", "Presence_of_Moons", "Habitable_Zone_Position",
             "Temperature", "Bio Potential", "Presence of Moons", "Size", "Density", "Mass",
             "Star_Metallicity"} |->
     CASE name = "Host_Star_Type" -> get_score_info(scores_processed, "Host Star Type")
       [] name = "System_Age" -> get_score_info(scores_processed, "System Age")
       [] name = "Stellar_Activity" -> stellar_activity_of(Get(planet_raw_TAP_data, "st_age"))
       [] name = "Orbital_Eccentricity" -> get_score_info(scores_processed, "Orbital Eccentricity")
       [] name = "Atmosphere_Potential" ->
            enriched_entry(enriched_details.atmosphere_potential_score,
                           enriched_details.atmosphere_potential_desc)
       [] name = "Liquid_Water_Potential" ->
            enriched_entry(enriched_details.liquid_water_potential_score,
                           enriched_details.liquid_water_potential_desc)
       [] name = "Magnetic_Activity" -> get_score_info(scores_processed, "Magnetic Activity")
       [] name = "Presence_of_Moons" ->
            enriched_entry(enriched_details.presence_of_moons_score,
                           enriched_details.presence_of_moons_desc)
       [] name = "Habitable_Zone_Position" ->
            get_score_info(scores_processed, "Habitable Zone Position")
       [] name = "Temperature" ->
            get_score_description(scores_processed, "Temperature", classification_text)
       [] name = "Bio Potential" ->
            get_score_description_bio(scores_processed, "Bio Potential",
                                      Get(planet_raw_TAP_data, "pl_eqt"))
       [] name = "Presence of Moons" ->
            get_score_description_moons(scores_processed, "Presence of Moons",
                                        classification_text, planet_raw_TAP_data)
       [] name = "Star_Metallicity" -> get_score_info(scores_processed, "Star Metallicity")
       [] OTHER -> get_score_info(scores_processed, name)]

\* lines 787-815: sephi_scores_for_template, the defaults replaced by the
\* entries of the bundle whose first item is a number
sephi_display_keys ==
  [SEPHI |-> "SEPHI", SEPHI_L1 |-> "L1 (Surface)", SEPHI_L2 |-> "L2 (Escape Velocity)",
   SEPHI_L3 |-> "L3 (Habitable Zone)", SEPHI_L4 |-> "L4 (Magnetic Field)"]

\* lines 804-813 for an entry of the bundle and the outcome of float(item[0])
sephi_entry(item, score) ==
  IF ~score.ok THEN default_score_info
  ELSE [score |-> score.v,
        color |-> item[2],
        text |-> IF Len(item) <= 2 THEN str_of_score(score.v) ELSE item[3]]

sephi_scores_for_template_of(sephi_processed) ==
  [display_key \in DOMAIN sephi_display_keys |->
     IF /\ sephi_display_keys[display_key] \in DOMAIN sephi_processed
        /\ Len(sephi_processed[sephi_display_keys[display_key]]) >= 1
     THEN sephi_entry(sephi_processed[sephi_display_keys[display_key]],
                      float(sephi_processed[sephi_display_keys[display_key]][1]))
     ELSE default_score_info]

\* lines 817-826: the components of the Habitability score
habitability_components(scores) ==
  <<scores["Temperature"].score, scores["Bio Potential"].score,
    scores["Magnetic_Activity"].score, scores["System_Age"].score,
    scores["Presence of Moons"].score, scores["Size"].score, scores["Density"].score>>

\* math.log(max(1e-10, c)): ln 1e-10 = -23.025851
component_log(c) == IF IsNaN(c) \/ c.m <= 0 THEN -10 * LN10 - 1 ELSE LnFX(ToFX(c))

\* lines 827-830: np.clip(np.power(np.prod([max(1e-10, c) for c in components]), 1/7), 0, 100)
habitability_power(components) ==
  ExpFX((component_log(components[1]) + component_log(components[2])
         + component_log(components[3]) + component_log(components[4])
         + component_log(components[5]) + component_log(components[6])
         + component_log(components[7])) \div 7)

clipped(power) == IF power > 100 * FXS THEN Int_(100) ELSE Dec(power, 6)

habitability_mean(components) == clipped(habitability_power(components))

\* lines 840-844: ten more for a warm Terran or Superterran
habitability_score_value(components, classification_text) ==
  IF In(<<"W", "a", "r", "m">>, classification_text) /\ terran_like(classification_text)
  THEN min(DecAdd(habitability_mean(components), Int_(10)), Int_(100))
  ELSE habitability_mean(components)

\* lines 845-849: scores_for_template["Habitability"]
habitability_entry(score) ==
  [score |-> score,
   color |-> report_color_for_percentage(score),
   text |-> Str(<<"O", "v", "e", "r", "a", "l", "l", " ", "H", "a", "b", "i", "t", "a", "b", "i", "l", "i", "t", "y", " ", "S", "c", "o", "r", "e">>)]

with_habitability(scores, classification_text) ==
  Update(scores,
         [Habitability |->
            habitability_entry(habitability_score_value(habitability_components(scores),
                                                        classification_text))])

\* lines 986-1011: data_for_template, the fields the scores go to
data_for_template_of(p_data, enriched_details, classification_text) ==
  [planet_name |-> GetOr(p_data.planet_data_dict, "pl_name", Str(NA)),
   classification |-> classification_text,
   scores |-> with_habitability(
                scores_for_template_of(p_data.scores_for_report, enriched_details,
                                       classification_text, p_data.planet_data_dict),
                classification_text),
   sephi_scores |-> sephi_scores_for_template_of(p_data.sephi_scores_for_report),
   magnetic_activity_score |-> enriched_details.magnetic_activity_score,
   presence_of_moons_score |-> enriched_details.presence_of_moons_score,
   atmosphere_potential_desc |-> enriched_details.atmosphere_potential_desc,
   liquid_water_potential_desc |-> enriched_details.liquid_water_potential_desc,
   magnetic_activity_desc |-> enriched_details.magnetic_activity_desc,
   presence_of_moons_desc |-> enriched_details.presence_of_moons_desc]

\* lines 686-1013 for one planet once the enrichment has returned or raised
prepared_enriched(p_data, enriched_details, classification_text) ==
  IF ~enriched_details.ok THEN enriched_details
  ELSE Ret(data_for_template_of(p_data, enriched_details.v, classification_text))

prepared_classified(p_data, classification_text) ==
  prepared_enriched(p_data,
                    enrich_atmosphere_water_magnetic_moons(p_data.planet_data_dict,
                                                           classification_text),
                    classification_text)

prepared_planet(p_data) ==
  prepared_classified(p_data, classification_text_of(p_data.planet_data_dict))

\* the bundles that have a record (lines 688-691)
with_record(all_planets_report_data) ==
  SelectSeq(all_planets_report_data, LAMBDA p_data : p_data.planet_data_dict # <<>>)

\* the entries of the planets, or the exception of the first that raised
prepared_entries(entries) ==
  IF \E i \in DOMAIN entries : ~entries[i].ok
  THEN entries[CHOOSE i \in DOMAIN entries :
                 ~entries[i].ok /\ \A j \in 1..(i - 1) : entries[j].ok]
  ELSE Ret([i \in DOMAIN entries |-> entries[i].v])

prepared_list(planets) ==
  prepared_entries([i \in DOMAIN planets |-> prepared_planet(planets[i])])

\* _prepare_data_for_aggregated_reports(all_planets_report_data, output_dir)
_prepare_data_for_aggregated_reports(all_planets_report_data) ==
  prepared_list(with_record(all_planets_report_data))

\* the bundle of the sample data of reports.py (lines 1226-1262): scores with
\* a text, a Magnetic Activity score among them
TestPlanetAlpha ==
  [planet_data_dict |->
     [pl_name |-> Str(<<"T", "e", "s", "t", " ", "P", "l", "a", "n", "e", "t", " ", "A", "l", "p", "h", "a">>), st_spectype |-> Str(<<"G", "2", "V">>),
      st_teff |-> Int_(5800), st_rad |-> Int_(1), pl_orbsmax |-> Int_(1),
      pl_rade |-> Int_(1), pl_masse |-> Int_(1), pl_eqt |-> Int_(288),
      classification_final_display |-> Str(<<"M", "e", "s", "o", "p", "l", "a", "n", "e", "t">>)],
   scores_for_report |->
     [name \in {"ESI", "System Age", "Magnetic Activity", "Presence of Moons", "Size", "Density"} |->
        CASE name = "ESI" -> <<Int_(85), "#28a745", Str(<<"H", "i", "g", "h", " ", "E", "a", "r", "t", "h", " ", "S", "i", "m", "i", "l", "a", "r", "i", "t", "y">>)>>
          [] name = "System Age" -> <<Int_(80), "#28a745", Str(<<"O", "p", "t", "i", "m", "a", "l", " ", "A", "g", "e">>)>>
          [] name = "Magnetic Activity" -> <<Int_(60), "#90ee90", Str(<<"M", "o", "d", "e", "r", "a", "t", "e", " ", "F", "i", "e", "l", "d">>)>>
          [] name = "Presence of Moons" -> <<Int_(50), "#ffc107", Str(<<"P", "o", "s", "s", "i", "b", "l", "e", " ", "M", "o", "o", "n", "s", " ", "(", "P", "l", "a", "c", "e", "h", "o", "l", "d", "e", "r", ")">>)>>
          [] name = "Size" -> <<Int_(98), "#28a745", Str(<<"E", "a", "r", "t", "h", "-", "s", "i", "z", "e", "d">>)>>
          [] name = "Density" -> <<Int_(96), "#28a745", Str(<<"E", "a", "r", "t", "h", "-", "l", "i", "k", "e", " ", "D", "e", "n", "s", "i", "t", "y">>)>>],
   sephi_scores_for_report |->
     [name \in Range(sephi_names) |->
        CASE name = "SEPHI" -> <<Int_(80), "#28a745", Str(<<"H", "i", "g", "h", " ", "S", "E", "P", "H", "I">>)>>
          [] name = "L1 (Surface)" -> <<Int_(85), "#28a745", Str(<<"L", "1", " ", "D", "e", "s", "c">>)>>
          [] name = "L2 (Escape Velocity)" -> <<Int_(75), "#90ee90", Str(<<"L", "2", " ", "D", "e", "s", "c">>)>>
          [] name = "L3 (Habitable Zone)" -> <<Int_(90), "#28a745", Str(<<"L", "3", " ", "D", "e", "s", "c">>)>>
          [] name = "L4 (Magnetic Field)" -> <<Int_(70), "#90ee90", Str(<<"L", "4", " ", "D", "e", "s", "c">>)>>]]

\* the fields of a record the scores of the report are taken of
ReportFields == {"pl_masse", "pl_eqt", "st_spectype", "st_age", "st_teff", "st_rad", "pl_orbsmax"}

\* the values of AnyValues, a K and an M star, and masses on both sides of 0.5 and 1
ReportValues ==
  AnyValues \cup {Str(<<"K", "1", "V">>), Str(<<"M", "3", "V">>), Dec(3, 1), Dec(7, 1), Int_(2)}

\* a bundle with fields of its record replaced
overridden(p_data, override) ==
  [p_data EXCEPT !.planet_data_dict = Update(p_data.planet_data_dict, override)]

\* routes.py collects the bundles process_planet_data returned, and
\* generate_summary_report_html and generate_combined_report_html (lines 1060,
\* 1149) prepare them.  The list here is one bundle or none: of a processed row
\* (default weights), of the sample data, or one without a record.
Collected(name, bundle) ==
  /\ op' = name
  /\ args' = <<>>
  /\ result' = bundle
  /\ result'.ok
  /\ pc' = "collected"
  /\ UNCHANGED <<caller, calls, cache, now, session>>

CollectProcessed ==
  /\ pc = "idle"
  /\ \E row \in Rows, override \in Overrides(ReportFields, ReportValues) :
       Collected("process_planet_data",
                 process_planet_data(Str(<<"P", "l", "a", "n", "e", "t">>), Update(row, override),
                                     [habitability |-> DEFAULT_HABITABILITY_WEIGHTS,
                                      phi |-> DEFAULT_PHI_WEIGHTS]))

CollectSample ==
  /\ pc = "idle"
  /\ \E override \in Overrides(ReportFields, ReportValues) :
       Collected("sample", Ret(overridden(TestPlanetAlpha, override)))

CollectNone ==
  /\ pc = "idle"
  /\ Collected("none", Ret([planet_data_dict |-> <<>>]))

PrepareCall(all_planets_report_data) ==
  /\ args' = [all_planets_report_data |-> all_planets_report_data]
  /\ result' = _prepare_data_for_aggregated_reports(all_planets_report_data)
  /\ op' = "_prepare_data_for_aggregated_reports"
  /\ pc' = "done"
  /\ UNCHANGED <<caller, calls, cache, now, session>>

PrepareCollected ==
  /\ pc = "collected"
  /\ PrepareCall(<<result.v>>)

PrepareEmpty ==
  /\ pc = "idle"
  /\ PrepareCall(<<>>)

SpecReports ==
  Init /\ [][CollectProcessed \/ CollectSample \/ CollectNone \/ PrepareCollected
             \/ PrepareEmpty \/ Return]_vars

\* a call of _prepare_data_for_aggregated_reports that returned a planet's entry
PreparedPlanet ==
  /\ Done("_prepare_data_for_aggregated_reports")
  /\ result.ok
  /\ result.v # <<>>

\* what enrich_atmosphere_water_magnetic_moons derives from the record of the call
EnrichedOfCall ==
  enrich_atmosphere_water_magnetic_moons(
    args.all_planets_report_data[1].planet_data_dict,
    classification_text_of(args.all_planets_report_data[1].planet_data_dict)).v

\* C27: the Magnetic_Activity score in a planet's template scores, which is
\* the third component of its Habitability score, is the enrichment score
\* that enrich_atmosphere_water_magnetic_moons derives from the planet's
\* mass, classification and spectral type
C27_MagneticIsEnrichment ==
  PreparedPlanet =>
    /\ NumEq(result.v[1].scores["Magnetic_Activity"].score,
             EnrichedOfCall.magnetic_activity_score)
    /\ NumEq(habitability_components(result.v[1].scores)[3],
             EnrichedOfCall.magnetic_activity_score)

\* a processed Superterran of a G or K star: the enrichment score is 80 or
\* more and is in the entry's magnetic_activity_score, while the template
\* score Magnetic_Activity is the default 0.0, grey, "N/A" and the
\* Habitability score is below 1
C27_EnrichmentDiscarded ==
  /\ PreparedPlanet
  /\ "Magnetic Activity" \notin DOMAIN args.all_planets_report_data[1].scores_for_report
  /\ Ge(EnrichedOfCall.magnetic_activity_score, Int_(80))
  /\ result.v[1].magnetic_activity_score = EnrichedOfCall.magnetic_activity_score
  /\ result.v[1].scores["Magnetic_Activity"] = default_score_info
  /\ Lt(result.v[1].scores["Habitability"].score, Int_(1))

\* the sample bundle: the Magnetic_Activity score is the 60 of the bundle's
\* scores, not the 10 or 40 of the enrichment
C27_BundleScoreShown ==
  /\ PreparedPlanet
  /\ "Magnetic Activity" \in DOMAIN args.all_planets_report_data[1].scores_for_report
  /\ NumEq(result.v[1].scores["Magnetic_Activity"].score, Int_(60))
  /\ Lt(EnrichedOfCall.magnetic_activity_score, Int_(60))

\* the colour of an entry is the colour level of the value the entry shows
ColourOfReported(entry) == entry[2] = get_color_for_percentage(entry[1], TRUE)

\* C28: in every bundle process_planet_data returns, the colour paired with
\* ESI, SPH, PHI, SEPHI and L1..L4 is get_color_for_percentage of the reported
\* rounded value, so that two entries showing the same value have one colour
C28_ColourOfReportedValue ==
  (Done("process_planet_data") /\ result.ok) =>
    /\ \A name \in {"ESI", "SPH", "PHI"} :
         ColourOfReported(result.v.scores_for_report[name])
    /\ \A name \in DOMAIN result.v.sephi_scores_for_report :
         ColourOfReported(result.v.sephi_scores_for_report[name])

\* a bundle that shows SPH 80.0 and L2 80.0 in light green, the colour of
\* values below 80, while the colour level of 80.0 is green
C28_EightyInTwoColours ==
  /\ Done("process_planet_data") /\ result.ok
  /\ result.v.scores_for_report["SPH"] = <<Dec(8000, 2), "#8BC34A">>
  /\ "L2 (Escape Velocity)" \in DOMAIN result.v.sephi_scores_for_report
  /\ result.v.sephi_scores_for_report["L2 (Escape Velocity)"] = <<Dec(800, 1), "#8BC34A">>
  /\ get_color_for_percentage(Dec(8000, 2), TRUE) = "#4CAF50"

\* the keys under which the reports look up SEPHI and its components
\* (reports.py lines 797-803)
ConsumerKeys == {sephi_display_keys[display_key] : display_key \in DOMAIN sephi_display_keys}

\* calculate_sephi gave no numbers for the bundle returned
SephiUnavailable ==
  /\ Done("process_planet_data") /\ result.ok
  /\ "SEPHI" \in DOMAIN result.v.sephi_scores_for_report
  /\ IsStr(result.v.sephi_scores_for_report["SEPHI"][1])

\* C29: sephi_scores_for_report of every bundle has the same five keys, SEPHI
\* and one per component L1..L4, whether SEPHI is available or not, so that a
\* consumer looking up the component keys finds an entry in both cases; when
\* SEPHI is unavailable each of the five entries is ("N/A", grey)
C29_SameFiveKeys ==
  (Done("process_planet_data") /\ result.ok) =>
    /\ DOMAIN result.v.sephi_scores_for_report = ConsumerKeys
    /\ SephiUnavailable =>
         \A key \in ConsumerKeys :
           result.v.sephi_scores_for_report[key] = <<Str(NA), "#757575">>

\* a bundle without SEPHI: its keys are SEPHI, L1, L2, L3, L4, each ("N/A",
\* grey), and none of the component keys of the bundles with SEPHI is there
C29_ComponentKeysMissing ==
  /\ SephiUnavailable
  /\ DOMAIN result.v.sephi_scores_for_report = {"SEPHI", "L1", "L2", "L3", "L4"}
  /\ \A key \in DOMAIN result.v.sephi_scores_for_report :
       result.v.sephi_scores_for_report[key] = <<Str(NA), "#757575">>
  /\ ConsumerKeys \cap DOMAIN result.v.sephi_scores_for_report = {"SEPHI"}

\* a bundle with SEPHI: its keys are the five the reports look up
C29_ComponentKeysPresent ==
  /\ Done("process_planet_data") /\ result.ok
  /\ ~SephiUnavailable
  /\ DOMAIN result.v.sephi_scores_for_report = ConsumerKeys
=============================================================================
